---- MODULE Spec2Model ----
(***************************************************************************)
(* A model of the Sphinx interpreter's front half: the bytecode builder    *)
(* and program loader (codegen/chunk.rs), the debug symbol table           *)
(* (debug/symbol/table.rs), the rule-driven lexer (lexer/lexer.rs) and the *)
(* REPL read loop (bin/sphinx.rs).                                         *)
(*                                                                         *)
(* Each component has its own specification over the shared variables; the *)
(* variables of the other components stay at their initial values.         *)
(***************************************************************************)
EXTENDS Integers, Sequences, FiniteSets, TLC

(***************************************************************************)
(* Bounds of the model                                                     *)
(***************************************************************************)
\* chunks a builder may hold in Spec (the first one included)
MaxChunks == 2
\* bytes pushed into one chunk
MaxChunkLen == 1
\* entries of the constant pool in Spec
MaxConsts == 2
\* largest bytecode offset offered to DebugSymbolTable::insert
MaxOffset == 4
\* characters of a lexer input
MaxLen == 4
\* the most parameters of a signature, and the most arguments of a call
MaxArity == 2
MaxArgs == 3
\* items of one tuple
MaxTupleLen == 2
\* nested calls of fmt the stack has room for
MaxStack == 10
\* frames of an ErrorContext, the base frame included
MaxFrames == 3
\* bytes of the patched ChunkBuf, and the longest patch or resized range
MaxBuf == 4
MaxPatch == 2
\* operators asked for their precedence level
MaxQueries == 2
\* calls on the process string table, and strings of one program
MaxTableCalls == 3
MaxProgramStrings == 2
\* trace sites of one traceback
MaxTrace == 3
\* Upvalues created
MaxUpvalues == 3
\* results the Parser yields for one source
MaxOutput == 4
\* next_token calls on one input
MaxCalls == 6
\* lines and read errors standard input delivers before its end
MaxReads == 3
\* the same, for a process started with command-line arguments
MaxArgReads == 2

\* ConstID, ChunkID and FunctionID are u16
U16_MAX == 65535

(***************************************************************************)
(* Option<T>: None is the empty sequence, Some(x) the one-element sequence *)
(***************************************************************************)
None == <<>>
Some(x) == <<x>>
is_some(o) == o # <<>>
unwrap(o) == o[1]

Min(a, b) == IF a < b THEN a ELSE b

VARIABLES
    \* ChunkBuilder
    elided,         \* how many leading entries of chunks, and of consts and dedup,
                    \* are not written out below: elided chunks are empty, elided
                    \* constant i is ElidedConst(i); 0 but for a builder near the id limit
    chunks,         \* Vec<ChunkBuf>: each [bytes, symbol]
    consts,         \* Vec<Constant>
    dedup,          \* HashMap<Constant, ConstID>
    strings,        \* the builder's StringInterner: the texts, symbol i at i+1
    \* the products of build and load
    phase,          \* "building", "built" (build consumed the builder), "loaded",
                    \* "unloaded" (unload consumed the program)
    unloaded,       \* Option<UnloadedProgram>
    program,        \* Option<Program>
    string_table,   \* STRING_TABLE's interner: the texts, symbol i at i+1
    exported,       \* Option<UnloadedProgram>: what unload made of the program
    ret,            \* the result of the last builder call
    arg,            \* history: the constant the last call handed to get_or_insert_const
    calls,          \* history: <<constant as the caller gave it, ConstID returned>>
    \* DebugSymbolTable
    entries,        \* Vec<SymbolTableEntry>: each [offset, symbol]
    sym_ret,        \* the last insert: [offset, result], result "ok" or "panic"
    lookup_ret,     \* Option<[offset, symbol]>: the last lookup and what it returned
    \* Lexer
    input,          \* the whole source text, as the characters the lexer was built on
    lexer,          \* the Lexer: [source (the characters not yet read), current,
                    \* lineno, rules (each rule's state)]
    out,            \* history: what each next_token call returned, in order
    \* Repl::run and standard input
    pc,             \* "read": at the top of the inner loop; "submit": the inner loop
                    \* was left by break; "done": run has returned
    repl_input,     \* the String input: the accumulated buffer
    parse_result,   \* Option<ast>
    ast_interner,   \* None while parse_result is; else Some(k): k StringInterner
                    \* instances were made after the one parse_result was parsed
                    \* with, so Some(0) says it is the one `interner` holds
    prompt,         \* the prompt written last
    stdin_eof,      \* standard input has reached its end: every read returns nothing
    nread,          \* how many lines and read errors standard input has delivered
    line,           \* history: the last read: [kind, text (trim_end of the line), raw]
    last_submit,    \* history: the buffer submitted last and what came of it
    tick,           \* history: the parity of the number of prompts written
    \* main and the objects it creates
    args,           \* the command line: [file, cmd, interactive, parse_only, compile_only]
    mpc,            \* "start": main is entered; "repl": Repl::run is running;
                    \* "exit": the process has ended
    exit_status,    \* Option<exit status of the process>
    caches,         \* the ModuleCache objects created, each the names of the modules
                    \* inserted into it; object i at position i
    envs,           \* the GlobalEnv objects created, each the globals defined in it
    repl,           \* Option<Repl>: [module_cache, repl_env], the objects it refers to
    vms,            \* history: the VirtualMachines constructed and run, in order
    steps,          \* history: what main itself did, in order
    \* ParseContext::parse_ast
    parser_output,  \* what the Parser yields: a Vec<Result<StmtMeta, ParserError>>
    parse_ast_ret,  \* Option<what parse_ast returned>
    \* Upvalues
    upvalues,       \* the Upvalues created, each the Closure in its cell
    up_op,          \* history: the last call: [op, i (which upvalue), arg]
    \* calls
    callee,         \* the function called: [kind, signature, module, fun_id]
    call_nargs,     \* args.len()
    call_ret,       \* Option<[op, result]>: what the call checked last returned
    native_runs,    \* history: how often the native function's body was run
    \* a RuntimeError on its way up
    error_val,      \* Option<RuntimeError>: [kind, traceback, cause]
    err_op,         \* history: the last call on it: [op, arg]
    \* hashing a Variant
    variant,        \* the value: [tag, val (its payload, written out), items]
    hash_ret,       \* Option<[op, result]>: what the last call on it returned
    \* ErrorContext
    ctx_stack,      \* Vec<ContextFrame>: each [tag, start, end], the spans Option<Span>
    ctx_op,         \* history: the last call on it, "panic" if its assertion failed
    ctx_ret,        \* the frame pop returned, None after every other call
    \* a tuple being constructed and formatted
    made,           \* the value a constructor returned: a Tuple or a Variant
    made_by,        \* history: "", "Tuple::from" or "make_tuple"
    fmt_ret,        \* "" before formatting, then "ok" or "panic"
    \* one ChunkBuf being patched
    buf,            \* ChunkBuf: [bytes, symbol]
    buf_op,         \* history: the last call on it with its arguments
    \* fmt::Display for Variant
    fmt_value,      \* the value being formatted
    fmt_stack,      \* the calls of fmt in progress, innermost last: each [value, item
                    \* (the item of a tuple in hand), after (it has been written)]
    fmt_out,        \* what has been written to the formatter, piece by piece
    fmt_state,      \* "idle", "running", "done", or "overflow" (the stack is used up)
    \* MetaObject for StringValue
    strop,          \* Option<[op, self, other, ret]>: the last call and what it returned
    \* BinaryOp
    queries,        \* history: the operators asked for their level: <<[op, level]>>
    \* the borrows of the process string table (one thread: STRING_TABLE is
    \* thread-local)
    cell,           \* the RefCell's borrow state: [writers, readers]
    tcall,          \* Option<[op, pc, left]>: the call running, where it is, and how
                    \* many strings its loop has left
    tdone,          \* history: the calls that returned
    borrow_panic    \* a borrow was refused (BorrowError / BorrowMutError)

bvars ==
    <<elided, chunks, consts, dedup, strings, phase, unloaded, program, string_table,
      exported, ret, arg, calls>>
svars == <<entries, sym_ret, lookup_ret>>
lvars == <<input, lexer, out>>
rvars ==
    <<pc, repl_input, parse_result, ast_interner, prompt, stdin_eof, nread, line,
      last_submit, tick>>
mvars == <<args, mpc, exit_status, caches, envs, repl, vms, steps>>
pvars == <<parser_output, parse_ast_ret>>
uvars == <<upvalues, up_op>>
cvars == <<callee, call_nargs, call_ret, native_runs>>
evars == <<error_val, err_op>>
hvars == <<variant, hash_ret>>
tvars == <<cell, tcall, tdone, borrow_panic>>
ovars == <<queries>>
xvars == <<strop>>
dvars == <<fmt_value, fmt_stack, fmt_out, fmt_state>>
kvars == <<ctx_stack, ctx_op, ctx_ret>>
fvars == <<buf, buf_op>>
gvars == <<made, made_by, fmt_ret>>
vars ==
    <<bvars, svars, lvars, rvars, mvars, pvars, uvars, cvars, evars, hvars, tvars,
      ovars, xvars, dvars, kvars, fvars, gvars>>

\* what an action of one component leaves alone
notB ==
    <<svars, lvars, rvars, mvars, pvars, uvars, cvars, evars, hvars, tvars, ovars,
      xvars, dvars, kvars, fvars, gvars>>
notS ==
    <<bvars, lvars, rvars, mvars, pvars, uvars, cvars, evars, hvars, tvars, ovars,
      xvars, dvars, kvars, fvars, gvars>>
notL ==
    <<bvars, svars, rvars, mvars, pvars, uvars, cvars, evars, hvars, tvars, ovars,
      xvars, dvars, kvars, fvars, gvars>>
notR ==
    <<bvars, svars, lvars, mvars, pvars, uvars, cvars, evars, hvars, tvars, ovars,
      xvars, dvars, kvars, fvars, gvars>>
notP ==
    <<bvars, svars, lvars, rvars, mvars, uvars, cvars, evars, hvars, tvars, ovars,
      xvars, dvars, kvars, fvars, gvars>>
notU ==
    <<bvars, svars, lvars, rvars, mvars, pvars, cvars, evars, hvars, tvars, ovars,
      xvars, dvars, kvars, fvars, gvars>>
notC ==
    <<bvars, svars, lvars, rvars, mvars, pvars, uvars, evars, hvars, tvars, ovars,
      xvars, dvars, kvars, fvars, gvars>>
notE ==
    <<bvars, svars, lvars, rvars, mvars, pvars, uvars, cvars, hvars, tvars, ovars,
      xvars, dvars, kvars, fvars, gvars>>
notH ==
    <<bvars, svars, lvars, rvars, mvars, pvars, uvars, cvars, evars, tvars, ovars,
      xvars, dvars, kvars, fvars, gvars>>
notT ==
    <<bvars, svars, lvars, rvars, mvars, pvars, uvars, cvars, evars, hvars, ovars,
      xvars, dvars, kvars, fvars, gvars>>
notO ==
    <<bvars, svars, lvars, rvars, mvars, pvars, uvars, cvars, evars, hvars, tvars,
      xvars, dvars, kvars, fvars, gvars>>
notX ==
    <<bvars, svars, lvars, rvars, mvars, pvars, uvars, cvars, evars, hvars, tvars,
      ovars, dvars, kvars, fvars, gvars>>
notD ==
    <<bvars, svars, lvars, rvars, mvars, pvars, uvars, cvars, evars, hvars, tvars,
      ovars, xvars, kvars, fvars, gvars>>
notK ==
    <<bvars, svars, lvars, rvars, mvars, pvars, uvars, cvars, evars, hvars, tvars,
      ovars, xvars, dvars, fvars, gvars>>
notF ==
    <<bvars, svars, lvars, rvars, mvars, pvars, uvars, cvars, evars, hvars, tvars,
      ovars, xvars, dvars, kvars, gvars>>
notG ==
    <<bvars, svars, lvars, rvars, mvars, pvars, uvars, cvars, evars, hvars, tvars,
      ovars, xvars, dvars, kvars, fvars>>
notRM ==
    <<bvars, svars, lvars, pvars, uvars, cvars, evars, hvars, tvars, ovars, xvars,
      dvars, kvars, fvars, gvars>>

(***************************************************************************)
(* Texts.  A text is its sequence of code points; as_bytes is its UTF-8    *)
(* encoding and from_utf8 the decoding (None when the bytes are no UTF-8). *)
(***************************************************************************)
Texts == { <<>>, <<97>>, <<233, 97>> }

RECURSIVE as_bytes(_)
as_bytes(text) ==
    IF text = <<>> THEN <<>>
    ELSE LET cp == Head(text)
         IN  IF cp < 128 THEN <<cp>> \o as_bytes(Tail(text))
             ELSE <<192 + (cp \div 64), 128 + (cp % 64)>> \o as_bytes(Tail(text))

RECURSIVE from_utf8(_)
from_utf8(bytes) ==
    IF bytes = <<>> THEN Some(<<>>)
    ELSE LET b == Head(bytes)
         IN  IF b < 128
             THEN LET rest == from_utf8(Tail(bytes))
                  IN  IF is_some(rest) THEN Some(<<b>> \o unwrap(rest)) ELSE None
             ELSE IF b >= 192 /\ b < 224 /\ Len(bytes) >= 2
                     /\ bytes[2] >= 128 /\ bytes[2] < 192
             THEN LET rest == from_utf8(Tail(Tail(bytes)))
                  IN  IF is_some(rest)
                      THEN Some(<<(b - 192) * 64 + (bytes[2] - 128)>> \o unwrap(rest))
                      ELSE None
             ELSE None

(***************************************************************************)
(* StringInterner (string_interner crate, as the repository uses it):      *)
(* symbols are dense, from 0, in order of first interning.                 *)
(***************************************************************************)
interner_get_or_intern(strs, text) ==
    LET found == {i \in 1..Len(strs) : strs[i] = text}
    IN  IF found # {}
        THEN [strings |-> strs, symbol |-> (CHOOSE i \in found : TRUE) - 1]
        ELSE [strings |-> Append(strs, text), symbol |-> Len(strs)]

interner_resolve(strs, symbol) ==
    IF symbol >= 0 /\ symbol < Len(strs) THEN Some(strs[symbol + 1]) ELSE None

(***************************************************************************)
(* Constant                                                                *)
(***************************************************************************)
Floats == {"0.0", "-0.0", "1.5"}

\* FloatType::to_le_bytes: the IEEE-754 binary64 image, least significant byte first
to_le_bytes(f) ==
    CASE f = "0.0"  -> <<0, 0, 0, 0, 0, 0, 0, 0>>
      [] f = "-0.0" -> <<0, 0, 0, 0, 0, 0, 0, 128>>
      [] f = "1.5"  -> <<0, 0, 0, 0, 0, 0, 248, 63>>

Constant_Integer(value) == [tag |-> "Integer", a |-> value, b |-> <<>>]
Constant_Float(value) == [tag |-> "Float", a |-> 0, b |-> to_le_bytes(value)]
Constant_String(index) == [tag |-> "String", a |-> index, b |-> <<>>]
Constant_Function(chunk_id, function_id) == [tag |-> "Function", a |-> chunk_id, b |-> <<function_id>>]

(***************************************************************************)
(* ChunkBuf and ChunkBuilder                                               *)
(***************************************************************************)
ChunkBuf_new == [bytes |-> <<>>, symbol |-> None]

push_byte(chunk, byte) == [chunk EXCEPT !.bytes = Append(@, byte)]

\* &mut bytes[start..end]: Rust refuses a range that leaves the vector
range_in(v, start, end) == start <= end /\ end <= Len(v)

\* target.copy_from_slice(patch) on bytes[start..end]
copy_from_slice(v, start, patch) ==
    [i \in 1..Len(v) |-> IF i > start /\ i <= start + Len(patch) THEN patch[i - start] ELSE v[i]]

\* Vec::splice(start..end, replace_with)
Vec_splice(v, start, end, replace_with) ==
    SubSeq(v, 1, start) \o replace_with \o SubSeq(v, end + 1, Len(v))

\* std::iter::repeat(u8::default()).take(n)
repeat_default(n) == [i \in 1..n |-> 0]

\* ChunkBuf::patch_bytes: [panic, chunk]
patch_bytes(chunk, offset, patch) ==
    IF ~range_in(chunk.bytes, offset, offset + Len(patch))
    THEN [panic |-> TRUE, chunk |-> chunk]
    ELSE [panic |-> FALSE,
          chunk |-> [chunk EXCEPT !.bytes = copy_from_slice(@, offset, patch)]]

\* a resize that keeps what the range held and pads or cuts it
resize_patch_keeping(chunk, offset, from_len, to_len) ==
    IF ~range_in(chunk.bytes, offset, offset + from_len)
    THEN [panic |-> TRUE, chunk |-> chunk]
    ELSE LET held == SubSeq(chunk.bytes, offset + 1, offset + from_len)
             kept == IF to_len <= from_len THEN SubSeq(held, 1, to_len)
                     ELSE held \o repeat_default(to_len - from_len)
         IN  [panic |-> FALSE,
              chunk |-> [chunk EXCEPT !.bytes = Vec_splice(@, offset, offset + from_len, kept)]]

\* ChunkBuf::resize_patch: [panic, chunk]
resize_patch(chunk, offset, from_len, to_len) ==
    IF ~range_in(chunk.bytes, offset, offset + from_len)
    THEN [panic |-> TRUE, chunk |-> chunk]
    ELSE [panic |-> FALSE,
          chunk |-> [chunk EXCEPT !.bytes = Vec_splice(@, offset, offset + from_len,
                                                       repeat_default(to_len))]]

\* a call on the buffer, as the history keeps it
BufOp(op, offset, patch, from_len, to_len, panic) ==
    [op |-> op, offset |-> offset, patch |-> patch, from_len |-> from_len,
     to_len |-> to_len, panic |-> panic]

\* ChunkID::try_from(usize), ConstID::try_from(usize)
u16_try_from_off_by_one(n) == IF n <= U16_MAX + 1 THEN Some(n) ELSE None
u16_try_from(n) == IF n <= U16_MAX THEN Some(n) ELSE None

Ret(op, ok, id, err) == [op |-> op, ok |-> ok, id |-> id, err |-> err]

new_chunk(n, chs) ==
    LET chunk_id == u16_try_from(n + Len(chs))
    IN  IF ~is_some(chunk_id)
        THEN [chunks |-> chs, ret |-> Ret("new_chunk", FALSE, -1, "ChunkCountLimit")]
        ELSE [chunks |-> Append(chs, ChunkBuf_new),
              ret |-> Ret("new_chunk", TRUE, unwrap(chunk_id), "")]

\* the constants of a pool's elided entries: integers no caller of the model passes
ElidedConst(i) == Constant_Integer(100 + i)
IsElidedConst(n, value) == value.tag = "Integer" /\ value.a >= 100 /\ value.a < 100 + n

\* self.dedup.get(&value)
dedup_get_never(n, dd, value) == None
dedup_get(n, dd, value) ==
    IF IsElidedConst(n, value) THEN Some(value.a - 100)
    ELSE IF value \in DOMAIN dd THEN Some(dd[value]) ELSE None

get_or_insert_const(n, cs, dd, value, op) ==
    LET hit == dedup_get(n, dd, value)
    IN  IF is_some(hit)
        THEN [consts |-> cs, dedup |-> dd, ret |-> Ret(op, TRUE, unwrap(hit), "")]
        ELSE LET cid == u16_try_from(n + Len(cs))
             IN  IF ~is_some(cid)
                 THEN [consts |-> cs, dedup |-> dd,
                       ret |-> Ret(op, FALSE, -1, "ConstPoolLimit")]
                 ELSE [consts |-> Append(cs, value),
                       dedup |-> (value :> unwrap(cid)) @@ dd,
                       ret |-> Ret(op, TRUE, unwrap(cid), "")]

get_or_insert_str(n, cs, dd, strs, string) ==
    LET interned == interner_get_or_intern(strs, string)
        r == get_or_insert_const(n, cs, dd, Constant_String(interned.symbol), "get_or_insert_str")
    IN  [consts |-> r.consts, dedup |-> r.dedup, strings |-> interned.strings, ret |-> r.ret]

(***************************************************************************)
(* ChunkBuilder::build                                                     *)
(***************************************************************************)
StringIndex_default == [offset |-> 0, length |-> 0]

\* ChunkIndex::as_range and StringIndex::as_range: offset..(offset + length)
ChunkIndex_as_range(index) == [start |-> index.offset, end |-> index.offset + index.length]
StringIndex_as_range_to_length(index) == [start |-> index.offset, end |-> index.length]
StringIndex_as_range(index) == [start |-> index.offset, end |-> index.offset + index.length]

\* &bytes[range]
slice(bytes, range) == SubSeq(bytes, range.start + 1, range.end)

\* Vec::insert(index, element): the elements from index on shift right
Vec_insert(v, index, element) ==
    SubSeq(v, 1, index) \o <<element>> \o SubSeq(v, index + 1, Len(v))

RECURSIVE build_chunks(_, _, _)
build_chunks(chs, bytes, indices) ==
    IF chs = <<>> THEN [bytes |-> bytes, chunks |-> indices]
    ELSE LET chunk == Head(chs)
             index == [offset |-> Len(bytes), length |-> Len(chunk.bytes),
                       symbol |-> chunk.symbol]
         IN  build_chunks(Tail(chs), bytes \o chunk.bytes, Append(indices, index))

StringIndex_at(bytes, string) == [offset |-> Len(bytes), length |-> Len(string)]

\* the loop over self.strings.into_iter(): (symbol, string) in symbol order
RECURSIVE build_strings(_, _, _, _)
build_strings(strs, symbol, bytes, table) ==
    IF symbol >= Len(strs) THEN [bytes |-> bytes, strings |-> table]
    ELSE LET string == as_bytes(strs[symbol + 1])
             index == StringIndex_at(bytes, string)
         IN  build_strings(strs, symbol + 1, bytes \o string, Vec_insert(table, symbol, index))

\* a build that lays the strings out first
build_strings_first(chs, cs, strs) ==
    LET resized == [i \in 1..Len(strs) |-> StringIndex_default]
        s == build_strings(strs, 0, <<>>, resized)
        c == build_chunks(chs, s.bytes, <<>>)
    IN  [bytes |-> c.bytes, chunks |-> c.chunks, strings |-> s.strings,
         consts |-> cs, functions |-> <<>>]

build(chs, cs, strs) ==
    LET c == build_chunks(chs, <<>>, <<>>)
        resized == [i \in 1..Len(strs) |-> StringIndex_default]
        s == build_strings(strs, 0, c.bytes, resized)
    IN  [bytes |-> s.bytes, chunks |-> c.chunks, strings |-> s.strings,
         consts |-> cs, functions |-> <<>>]

(***************************************************************************)
(* UnloadedProgram and Program                                             *)
(***************************************************************************)
UnloadedProgram_chunk(p, chunk_id) == slice(p.bytes, ChunkIndex_as_range(p.chunks[chunk_id + 1]))

UnloadedProgram_string(p, index) == from_utf8(slice(p.bytes, StringIndex_as_range(p.strings[index + 1])))

\* 0..ChunkID::try_from(chunks.len()).unwrap(): None stands for the panic of unwrap
chunk_ids(p) ==
    LET end == u16_try_from(Len(p.chunks))
    IN  IF is_some(end) THEN Some(0..(unwrap(end) - 1)) ELSE None

\* UnloadedProgram::iter_strings: the text of every descriptor, in table order
iter_strings(p) ==
    [i \in 1..Len(p.strings) |->
        unwrap(from_utf8(slice(p.bytes, StringIndex_as_range(p.strings[i]))))]

\* chunk_ids of a program whose first n chunks, all empty, are not written out
chunk_ids_elided(n, p) ==
    LET end == u16_try_from(n + Len(p.chunks))
    IN  IF is_some(end) THEN Some(0..(unwrap(end) - 1)) ELSE None

RECURSIVE load_strings(_, _, _, _)
load_strings(p, i, interner, symbols) ==
    IF i > Len(p.strings) THEN [interner |-> interner, strings |-> symbols]
    ELSE LET string == unwrap(from_utf8(slice(p.bytes, StringIndex_as_range(p.strings[i]))))
             r == interner_get_or_intern(interner, string)
         IN  load_strings(p, i + 1, r.strings, Append(symbols, r.symbol))

RECURSIVE sum_chunk_len(_, _)
sum_chunk_len(p, ids) ==
    IF ids = {} THEN 0
    ELSE LET id == CHOOSE x \in ids : TRUE
         IN  Len(UnloadedProgram_chunk(p, id)) + sum_chunk_len(p, ids \ {id})

\* a load that keeps the whole byte buffer
load_untruncated(p, table) ==
    LET s == load_strings(p, 1, table, <<>>)
    IN  [panic |-> ~is_some(chunk_ids(p)),
         string_table |-> s.interner,
         program |-> [bytes |-> p.bytes, chunks |-> p.chunks, consts |-> p.consts,
                      functions |-> p.functions, strings |-> s.strings]]

\* load of a program whose first n chunks, all empty, are not written out: the
\* strings are interned before chunk_ids is asked
load_elided(n, p, table) ==
    LET s == load_strings(p, 1, table, <<>>)
        ids == chunk_ids_elided(n, p)
        byte_len == sum_chunk_len(p, 0..(Len(p.chunks) - 1))
    IN  [panic |-> ~is_some(ids),
         string_table |-> s.interner,
         program |-> [bytes |-> SubSeq(p.bytes, 1, Min(byte_len, Len(p.bytes))),
                      chunks |-> p.chunks, consts |-> p.consts,
                      functions |-> p.functions, strings |-> s.strings]]

load(p, table) ==
    LET s == load_strings(p, 1, table, <<>>)
        ids == chunk_ids(p)
        byte_len == sum_chunk_len(p, unwrap(ids))
    IN  [panic |-> ~is_some(ids),
         string_table |-> s.interner,
         program |-> [bytes |-> SubSeq(p.bytes, 1, Min(byte_len, Len(p.bytes))),
                      chunks |-> p.chunks, consts |-> p.consts,
                      functions |-> p.functions, strings |-> s.strings]]

\* the loop over self.strings of unload: each symbol is resolved in the process
\* table and its bytes are appended; panic stands for the panic of resolve().unwrap()
RECURSIVE unload_strings(_, _, _, _, _)
unload_strings(symbols, i, interner, bytes, indices) ==
    IF i > Len(symbols) THEN [panic |-> FALSE, bytes |-> bytes, strings |-> indices]
    ELSE LET resolved == interner_resolve(interner, symbols[i])
         IN  IF ~is_some(resolved)
             THEN [panic |-> TRUE, bytes |-> bytes, strings |-> indices]
             ELSE LET string == as_bytes(unwrap(resolved))
                      index == [offset |-> Len(bytes), length |-> Len(string)]
                  IN  unload_strings(symbols, i + 1, interner, bytes \o string,
                                     Append(indices, index))

\* string descriptors that count from the start of the string bytes
unload_offsets_from_strings(prog, table) ==
    LET s == unload_strings(prog.strings, 1, table, <<>>, <<>>)
    IN  [panic |-> s.panic,
         unloaded |-> [bytes |-> prog.bytes \o s.bytes, chunks |-> prog.chunks,
                       strings |-> s.strings, consts |-> prog.consts,
                       functions |-> prog.functions]]

unload(prog, table) ==
    LET s == unload_strings(prog.strings, 1, table, prog.bytes, <<>>)
    IN  [panic |-> s.panic,
         unloaded |-> [bytes |-> s.bytes, chunks |-> prog.chunks,
                       strings |-> s.strings, consts |-> prog.consts,
                       functions |-> prog.functions]]

Program_chunk(prog, chunk_id) == slice(prog.bytes, ChunkIndex_as_range(prog.chunks[chunk_id + 1]))

\* Variant, as far as lookup_value builds it
Variant_Integer(value) == [tag |-> "Integer", a |-> value, b |-> <<>>]
Variant_Float(bytes) == [tag |-> "Float", a |-> 0, b |-> bytes]
Variant_String(symbol) == [tag |-> "String", a |-> symbol, b |-> <<>>]

lookup_value(prog, index) ==
    LET c == prog.consts[index + 1]
    IN  CASE c.tag = "Integer" -> Some(Variant_Integer(c.a))
          [] c.tag = "Float" -> Some(Variant_Float(c.b))
          [] c.tag = "String" -> Some(Variant_String(prog.strings[c.a + 1]))
          [] OTHER -> None

(***************************************************************************)
(* DebugSymbolTable                                                        *)
(***************************************************************************)
SymbolTableEntry(offset, symbol) == [offset |-> offset, symbol |-> symbol]

\* PartialOrd for SymbolTableEntry compares the offsets alone
entry_lt(x, y) == x.offset < y.offset
entry_le(x, y) == x.offset <= y.offset

last(v) == IF v = <<>> THEN None ELSE Some(v[Len(v)])

table_insert(es, offset, symbol) ==
    LET entry == SymbolTableEntry(offset, symbol)
    IN  IF is_some(last(es)) /\ entry_le(entry, unwrap(last(es)))
        THEN [entries |-> es, result |-> "panic"]
        ELSE [entries |-> Append(es, entry), result |-> "ok"]

\* slice::binary_search_by_key over entries[lo+1..hi], by offset: Some(index) of a
\* matching entry (counted from 0), None where the std result is Err
RECURSIVE binary_search_by_key(_, _, _, _)
binary_search_by_key(es, key, lo, hi) ==
    IF lo >= hi THEN None
    ELSE LET mid == lo + ((hi - lo) \div 2)
         IN  IF es[mid + 1].offset = key THEN Some(mid)
             ELSE IF es[mid + 1].offset < key
             THEN binary_search_by_key(es, key, mid + 1, hi)
             ELSE binary_search_by_key(es, key, lo, mid)

\* DebugSymbolTable::lookup
table_lookup(es, offset) ==
    LET index == binary_search_by_key(es, offset, 0, Len(es))
    IN  IF is_some(index) THEN es[unwrap(index) + 1].symbol ELSE None

(***************************************************************************)
(* Lexer rules.  A rule is a state machine fed one character at a time;    *)
(* its state is the number of characters it has matched and its last match *)
(* result.  The model's rule set: the operators <, <<, <<=, <=, = (each    *)
(* matching its own text exactly), identifiers (a run of word characters   *)
(* that does not start with a digit) and the keywords if and in.           *)
(***************************************************************************)
NoMatch == "NoMatch"
IncompleteMatch == "IncompleteMatch"
CompleteMatch == "CompleteMatch"

Chars == {"<", "=", "!", "a", "#", " ", "\n"}
is_whitespace(ch) == ch \in {" ", "\n"}
is_digit(ch) == ch = "1"
\* CharClass::is_word_alphanumeric: a letter, a digit or the underscore
is_word(ch) == ch \in {"a", "i", "f", "n", "_", "1"}

StrRule(target, token) == [kind |-> "str", target |-> target, token |-> token]
WordRule(token) == [kind |-> "word", target |-> <<>>, token |-> token]
KeywordRule(result, target) == [kind |-> "keyword", target |-> target, token |-> result]

RuleDefs ==
    << StrRule(<<"<">>, "OpLT"),
       StrRule(<<"<", "<">>, "OpLShift"),
       StrRule(<<"<", "<", "=">>, "OpLShiftAssign"),
       StrRule(<<"<", "=">>, "OpLE"),
       StrRule(<<"=">>, "OpAssign"),
       WordRule("Identifier"),
       KeywordRule("If", <<"i", "f">>),
       KeywordRule("In", <<"i", "n">>),
       StrRule(<<"!", "=">>, "OpNE") >>

RuleIds == 1..Len(RuleDefs)

\* what a rule that has matched count characters answers to the next one
rule_match(def, count, ch) ==
    IF def.kind # "word"
    THEN IF count < Len(def.target) /\ def.target[count + 1] = ch
         THEN IF count + 1 = Len(def.target) THEN CompleteMatch ELSE IncompleteMatch
         ELSE NoMatch
    ELSE IF is_word(ch) /\ (count > 0 \/ ~is_digit(ch)) THEN CompleteMatch ELSE NoMatch

rule_reset == [count |-> 0, state |-> IncompleteMatch]

\* feed: the rule takes the character, whatever the result
rule_feed(def, rule, ch) ==
    LET result == rule_match(def, rule.count, ch)
    IN  [rule |-> [count |-> IF result # NoMatch THEN rule.count + 1 ELSE rule.count,
                   state |-> result],
         result |-> result]

\* try_match: like feed, but a character that does not match leaves the rule as it was
rule_try_match(def, rule, ch) ==
    LET result == rule_match(def, rule.count, ch)
    IN  [rule |-> IF result # NoMatch THEN [count |-> rule.count + 1, state |-> result]
                  ELSE rule,
         result |-> result]

\* must start first char at word boundary
at_word_boundary(prev) == IF is_some(prev) THEN ~is_word(unwrap(prev)) ELSE TRUE

\* KeywordRule::try_match: a keyword that has matched nothing yet refuses a character
\* that follows a word character, and otherwise answers as its matcher does
KeywordRule_try_match(def, rule, prev, next) ==
    IF rule.count = 0 /\ ~at_word_boundary(prev)
    THEN [rule |-> rule, result |-> NoMatch]
    ELSE rule_try_match(def, rule, next)

\* the same check where the lexer feeds the rule
KeywordRule_feed(def, rule, prev, next) ==
    IF rule.count = 0 /\ ~at_word_boundary(prev)
    THEN [rule |-> [rule EXCEPT !.state = NoMatch], result |-> NoMatch]
    ELSE rule_feed(def, rule, next)

\* the rule's own feed and try_match, handed the character before next
feed(def, rule, prev, next) ==
    IF def.kind = "keyword" THEN KeywordRule_feed(def, rule, prev, next)
    ELSE rule_feed(def, rule, next)

try_match(def, rule, prev, next) ==
    IF def.kind = "keyword" THEN KeywordRule_try_match(def, rule, prev, next)
    ELSE rule_try_match(def, rule, next)

\* get_token: the rule's token if its current state is a complete match
rule_get_token(def, rule) ==
    IF rule.state = CompleteMatch THEN Some(def.token) ELSE None

(***************************************************************************)
(* Lexer                                                                   *)
(***************************************************************************)
Span(index, length) == [index |-> index, length |-> length]

current_span(L, start_idx) ==
    IF L.current > start_idx THEN Span(start_idx, L.current - start_idx)
    ELSE Span(start_idx, 0)

peek(L) == IF L.source # <<>> THEN Some(Head(L.source)) ELSE None

\* a line counter that moves on every whitespace character
advance_counting_whitespace(L) ==
    LET next == IF L.source # <<>> THEN Some(Head(L.source)) ELSE None
    IN  [lexer |-> [L EXCEPT !.current = @ + 1,
                             !.source = IF is_some(next) THEN Tail(@) ELSE @,
                             !.lineno = IF is_some(next) /\ is_whitespace(unwrap(next))
                                        THEN @ + 1 ELSE @,
                             !.prev = L.last,
                             !.last = next],
         next |-> next]

\* returns [lexer, next]; last and prev are the character taken by this call and
\* the one taken before it, which the rules are handed as the preceding character
advance(L) ==
    LET next == peek(L)
    IN  [lexer |-> [L EXCEPT !.current = @ + 1,
                             !.source = IF is_some(next) THEN Tail(@) ELSE @,
                             !.lineno = IF next = Some("\n") THEN @ + 1 ELSE @,
                             !.prev = L.last,
                             !.last = next],
         next |-> next]

RECURSIVE skip_whitespace(_)
skip_whitespace(L) ==
    IF ~is_some(peek(L)) THEN L
    ELSE IF ~is_whitespace(unwrap(peek(L))) THEN L
    ELSE skip_whitespace(advance(L).lexer)

\* What next_token returns: Ok(TokenOut) is kind "token", Err(LexerError) is kind
\* "error", and kind "panic" is the panic of get_token().unwrap().  The fields path,
\* start, rule and round_complete are history: the way the call ended, the token's
\* start, the rule the token was asked of, and the rules that answered
\* CompleteMatch in the round before the last one.
Result(kind, token, message, L, token_start, path, rule, round_complete) ==
    [kind |-> kind, token |-> token, message |-> message,
     location |-> current_span(L, token_start), lineno |-> L.lineno,
     path |-> path, start |-> token_start, rule |-> rule,
     round_complete |-> round_complete]

token_data(L, token_start, token, path, rule, round_complete) ==
    Result("token", token, "", L, token_start, path, rule, round_complete)

error(L, token_start, message, path, round_complete) ==
    Result("error", "", message, L, token_start, path, 0, round_complete)

\* let token = rule.get_token().unwrap(); return Ok(self.token_data(token_start, token))
emit_token(L, token_start, rule_idx, path, round_complete) ==
    LET token == rule_get_token(RuleDefs[rule_idx], L.rules[rule_idx])
    IN  IF is_some(token)
        THEN token_data(L, token_start, unwrap(token), path, rule_idx, round_complete)
        ELSE Result("panic", "", "", L, token_start, path, rule_idx, round_complete)

\* the loop of exhaust_rule; returns [lexer, result]
RECURSIVE exhaust_rule(_, _, _)
exhaust_rule(L, token_start, rule_idx) ==
    LET next == peek(L)
    IN  IF ~is_some(next)
        THEN [lexer |-> L, result |-> emit_token(L, token_start, rule_idx, "exhaust", {})]
        ELSE LET m == try_match(RuleDefs[rule_idx], L.rules[rule_idx], L.last,
                                unwrap(next))
                 L1 == [L EXCEPT !.rules[rule_idx] = m.rule]
                 L2 == IF m.result # NoMatch THEN advance(L1).lexer ELSE L1
             IN  IF m.result # IncompleteMatch
                 THEN [lexer |-> L2,
                       result |-> emit_token(L2, token_start, rule_idx, "exhaust", {})]
                 ELSE exhaust_rule(L2, token_start, rule_idx)

\* for rule_idx in active.drain(..): feed next to the rule
RECURSIVE feed_active(_, _, _, _, _, _)
feed_active(rules, active, prev, next, next_active, complete) ==
    IF active = <<>>
    THEN [rules |-> rules, next_active |-> next_active, complete |-> complete]
    ELSE LET rule_idx == Head(active)
             m == feed(RuleDefs[rule_idx], rules[rule_idx], prev, next)
         IN  feed_active([rules EXCEPT ![rule_idx] = m.rule], Tail(active), prev, next,
                         IF m.result # NoMatch THEN Append(next_active, rule_idx)
                         ELSE next_active,
                         IF m.result = CompleteMatch THEN Append(complete, rule_idx)
                         ELSE complete)

\* the main loop of next_token, one round per call; round_complete is the set of
\* rules that answered CompleteMatch in the round before this one
RECURSIVE match_rounds(_, _, _, _, _, _)
match_rounds(L, token_start, next, active, complete, round_complete) ==
    LET f == feed_active(L.rules, active, L.prev, next, <<>>, complete)
        L1 == [L EXCEPT !.rules = f.rules]
        this_round == {f.complete[i] : i \in (Len(complete) + 1)..Len(f.complete)}
    IN  IF f.next_active = <<>>
        THEN IF f.complete = <<>>
             THEN [lexer |-> L1,
                   result |-> error(L1, token_start, "could not parse symbol",
                                    "empty", round_complete)]
             ELSE IF Len(f.complete) > 1
             THEN [lexer |-> L1,
                   result |-> error(L1, token_start, "ambiguous symbol",
                                    "empty", round_complete)]
             ELSE [lexer |-> L1,
                   result |-> emit_token(L1, token_start, f.complete[1],
                                         "empty", round_complete)]
        ELSE IF Len(f.next_active) = 1
        THEN exhaust_rule(L1, token_start, f.next_active[1])
        ELSE LET a == advance(L1)
             IN  IF ~is_some(a.next)
                 THEN [lexer |-> a.lexer,
                       result |-> error(a.lexer, token_start,
                                        "unexpected EOF while parsing symbol",
                                        "eof_in_symbol", this_round)]
                 ELSE match_rounds(a.lexer, token_start, unwrap(a.next),
                                   f.next_active, f.complete, this_round)

\* returns [lexer, result]
next_token(L) ==
    LET L1 == skip_whitespace(L)
        token_start == L1.current
        L2 == [L1 EXCEPT !.rules = [i \in RuleIds |-> rule_reset]]
        a == advance(L2)
    IN  IF ~is_some(a.next)
        THEN [lexer |-> a.lexer,
              result |-> token_data(a.lexer, token_start, "EOF", "eof", 0, {})]
        ELSE match_rounds(a.lexer, token_start, unwrap(a.next),
                          [i \in RuleIds |-> i], <<>>, {})

\* LexerBuilder::build
Lexer_build(text) ==
    [source |-> text, current |-> 0, lineno |-> 1,
     rules |-> [i \in RuleIds |-> rule_reset],
     prev |-> None, last |-> None]

(***************************************************************************)
(* The REPL (bin/sphinx.rs).  A line of standard input is the sequence of  *)
(* its characters, the newline that ends it included; a read at the end of *)
(* input returns no characters.  EOT is the character \x04.                *)
(***************************************************************************)
PROMT_START == ">>> "
PROMT_CONTINUE == "... "

EOT == "\\x04"
QUIT == <<"q", "u", "i", "t">>

RECURSIVE trim_end(_)
trim_end(text) ==
    IF text = <<>> THEN <<>>
    ELSE IF is_whitespace(text[Len(text)]) THEN trim_end(SubSeq(text, 1, Len(text) - 1))
    ELSE text

ends_with(text, ch) == text # <<>> /\ text[Len(text)] = ch
contains(text, ch) == \E i \in 1..Len(text) : text[i] = ch

\* sphinx_lang::parse_source, as far as the read loop depends on it: a text parses
\* without errors iff its braces balance; the tree is stood for by the text parsed
RECURSIVE brace_depth(_, _)
brace_depth(text, depth) ==
    IF text = <<>> THEN depth
    ELSE IF depth < 0 THEN depth
    ELSE brace_depth(Tail(text),
                     IF Head(text) = "{" THEN depth + 1
                     ELSE IF Head(text) = "}" THEN depth - 1
                     ELSE depth)

\* the statements of a text that parses, in source order: an x outside any block
\* is an expression statement, a block is one statement; each carries the debug
\* symbol of where it starts
StmtMeta_new(stmt, symbol) == [stmt |-> stmt, symbol |-> symbol]
Stmt_Expression(expr) == [kind |-> "Expression", expr |-> expr]
Stmt_Echo(expr) == [kind |-> "Echo", expr |-> expr]
Stmt_Block(at) == [kind |-> "Block", expr |-> <<"{", at>>]

RECURSIVE parse_stmts(_, _, _, _)
parse_stmts(text, at, depth, stmts) ==
    IF at > Len(text) THEN stmts
    ELSE LET ch == text[at]
         IN  parse_stmts(text, at + 1,
                 IF ch = "{" THEN depth + 1 ELSE IF ch = "}" THEN depth - 1 ELSE depth,
                 IF depth = 0 /\ ch = "{"
                 THEN Append(stmts, StmtMeta_new(Stmt_Block(at), [start |-> at]))
                 ELSE IF depth = 0 /\ ch = "x"
                 THEN Append(stmts, StmtMeta_new(Stmt_Expression(<<"x", at>>), [start |-> at]))
                 ELSE stmts)

parse_source(text) ==
    IF brace_depth(text, 0) = 0 THEN [ok |-> TRUE, ast |-> parse_stmts(text, 1, 0, <<>>)]
    ELSE [ok |-> FALSE, ast |-> <<>>]

ReadLine(kind, text, raw) == [kind |-> kind, text |-> text, raw |-> raw]

\* Repl::read_line, given what io::stdin().read_line delivered
read_line(raw, io_error) ==
    LET trimmed == trim_end(raw)
    IN  IF io_error THEN ReadLine("Restart", <<>>, <<>>)
        ELSE IF trimmed = <<>> THEN ReadLine("Empty", trimmed, raw)
        ELSE IF trimmed = QUIT \/ contains(trimmed, EOT) THEN ReadLine("Quit", trimmed, raw)
        ELSE ReadLine("Ok", trimmed, raw)

prompt_for(buffer) == IF buffer = <<>> THEN PROMT_START ELSE PROMT_CONTINUE

\* interner = StringInterner::new() at the head of the inner loop: whatever was
\* parsed before is now one instance older than the one `interner` holds
new_interner(parsed_with) ==
    IF is_some(parsed_with) THEN Some(unwrap(parsed_with) + 1) ELSE None

\* a parse inside the loop done with an interner of its own
parse_in_loop_scratch == Some(1)

\* parse_source(&mut interner, source_text) inside the loop: the instance of this pass
parse_in_loop_interner == Some(0)

\* the AST handed to compile_ast(interner, ast): the one kept from the loop, or the
\* one parsed after it with `interner`; the result is the age of its interner
compile_ast_interner(kept, parsed_with) ==
    IF is_some(kept) THEN unwrap(parsed_with) ELSE 0

\* the arm without the test for a closing ';'
on_line_unforced(buffer, text) ==
    LET input1 == buffer \o text
        parsed == parse_source(input1)
    IN  IF parsed.ok
        THEN [input |-> input1, parse_result |-> Some(parsed.ast), break |-> TRUE]
        ELSE [input |-> Append(input1, "\n"), parse_result |-> None, break |-> FALSE]

\* the arm leaving the loop after every line
on_line_always_break(buffer, text) ==
    LET input1 == buffer \o text
        parsed == parse_source(input1)
    IN  [input |-> input1,
         parse_result |-> IF parsed.ok THEN Some(parsed.ast) ELSE None,
         break |-> TRUE]

\* the arm ReadLine::Ok(line) of the inner loop
on_line(buffer, text) ==
    LET input1 == buffer \o text
    IN  IF ends_with(trim_end(text), ";")
        THEN [input |-> input1, parse_result |-> None, break |-> TRUE]
        ELSE LET parsed == parse_source(input1)
             IN  IF parsed.ok
                 THEN [input |-> input1, parse_result |-> Some(parsed.ast), break |-> TRUE]
                 ELSE [input |-> Append(input1, "\n"), parse_result |-> None,
                       break |-> FALSE]

(***************************************************************************)
(* main (bin/sphinx.rs): the mode chosen from the command line, and what   *)
(* the REPL does with a buffer it submits                                  *)
(***************************************************************************)
Args == [file : BOOLEAN, cmd : BOOLEAN, interactive : BOOLEAN,
         parse_only : BOOLEAN, compile_only : BOOLEAN]

ModuleSource_new(name, source) == [name |-> name, source |-> source]

\* let mut module = ...: the -c text before the file
select_module(a) ==
    IF a.cmd THEN Some(ModuleSource_new("<cmd>", "String"))
    ELSE IF a.file THEN Some(ModuleSource_new("FILE", "File"))
    ELSE None

mode_interactive_first(a) ==
    IF ~is_some(select_module(a)) THEN "repl"
    ELSE IF a.parse_only THEN "parse_only"
    ELSE IF a.interactive THEN "interactive"
    ELSE IF a.compile_only THEN "compile_only"
    ELSE "run"

\* the branch of main taken
mode(a) ==
    IF ~is_some(select_module(a)) THEN "repl"
    ELSE IF a.parse_only THEN "parse_only"
    ELSE IF a.compile_only THEN "compile_only"
    ELSE IF a.interactive THEN "interactive"
    ELSE "run"

Repl_new(module_cache, repl_env) == [module_cache |-> module_cache, repl_env |-> repl_env]

\* ModuleCache::insert and what a run leaves in the GlobalEnv it was given
ModuleCache_insert(cs, cache, module) == [cs EXCEPT ![cache] = Append(@, module.name)]
define_globals(es, env, defined) == [es EXCEPT ![env] = @ \cup defined]

\* the names a program may define as globals
Globals == {"x"}

\* a VirtualMachine that was constructed and run
Vm(ctor, cache, env, visible, defined, ok) ==
    [ctor |-> ctor, module_cache |-> cache, env |-> env,
     visible |-> visible, defined |-> defined, ok |-> ok]

submit_env_fresh(r, es) == Len(es) + 1

\* the GlobalEnv handed to VirtualMachine::new_repl by Repl::run
submit_env(r, es) == r.repl_env

echo_rewrite_all(ast) ==
    [i \in 1..Len(ast) |->
        IF ast[i].stmt.kind = "Expression"
        THEN StmtMeta_new(Stmt_Echo(ast[i].stmt.expr), ast[i].symbol)
        ELSE ast[i]]

\* if the last stmt is an expression statement, convert it into an inspect
echo_rewrite(ast) ==
    IF ast = <<>> THEN ast
    ELSE LET popped == ast[Len(ast)]
             rest == SubSeq(ast, 1, Len(ast) - 1)
             stmt == IF popped.stmt.kind = "Expression"
                     THEN Stmt_Echo(popped.stmt.expr)
                     ELSE popped.stmt
         IN  Append(rest, StmtMeta_new(stmt, popped.symbol))

(***************************************************************************)
(* ParseContext::parse_ast (source.rs)                                     *)
(***************************************************************************)
Ok(value) == [ok |-> TRUE, value |-> value]
Err(value) == [ok |-> FALSE, value |-> value]

\* filter_map(|r| r.ok()) and filter_map(|r| r.err()): the values, in order
RECURSIVE filter_map(_, _)
filter_map(output, ok) ==
    IF output = <<>> THEN <<>>
    ELSE IF Head(output).ok = ok
         THEN <<Head(output).value>> \o filter_map(Tail(output), ok)
         ELSE filter_map(Tail(output), ok)

parse_ast_first_error(output) ==
    IF \E i \in 1..Len(output) : ~output[i].ok
    THEN Err(<<filter_map(output, FALSE)[1]>>)
    ELSE Ok(filter_map(output, TRUE))

parse_ast(output) ==
    IF \E i \in 1..Len(output) : ~output[i].ok
    THEN Err(filter_map(output, FALSE))
    ELSE Ok(filter_map(output, TRUE))

(***************************************************************************)
(* Upvalues (runtime/function.rs)                                          *)
(***************************************************************************)
Closure_Open(index) == [tag |-> "Open", at |-> index]
Closure_Closed(gc_cell) == [tag |-> "Closed", at |-> gc_cell]

is_open(closure) == closure.tag = "Open"
is_closed(closure) == closure.tag = "Closed"

Upvalue_new(index) == Closure_Open(index)

Upvalue_close_unset(value, gc_cell) == value

\* self.value.set(Closure::Closed(gc_cell))
Upvalue_close(value, gc_cell) == Closure_Closed(gc_cell)

(***************************************************************************)
(* Calls (runtime/function.rs); Signature::check_args is modelled by the   *)
(* arity it checks                                                         *)
(***************************************************************************)
Signature(min_arity, max_arity) == [min_arity |-> min_arity, max_arity |-> max_arity]

MissingArguments(signature, nargs) ==
    [kind |-> "MissingArguments", signature |-> signature, nargs |-> nargs]
TooManyArguments(signature, nargs) ==
    [kind |-> "TooManyArguments", signature |-> signature, nargs |-> nargs]

check_args(signature, nargs) ==
    IF nargs < signature.min_arity THEN Err(MissingArguments(signature, nargs))
    ELSE IF is_some(signature.max_arity) /\ nargs > unwrap(signature.max_arity)
         THEN Err(TooManyArguments(signature, nargs))
    ELSE Ok("()")

Call_Chunk(module, fun_id) == [tag |-> "Chunk", module |-> module, fun_id |-> fun_id]
Call_Native(fun) == [tag |-> "Native", fun |-> fun]

Function_checked_call_unchecked(fun, nargs) == Ok(Call_Chunk(fun.module, fun.fun_id))

\* Function::checked_call
Function_checked_call(fun, nargs) ==
    LET checked == check_args(fun.signature, nargs)
    IN  IF ~checked.ok THEN checked
        ELSE Ok(Call_Chunk(fun.module, fun.fun_id))

\* GC<NativeFunction>::checked_call
Native_checked_call(fun, nargs) ==
    LET checked == check_args(fun.signature, nargs)
    IN  IF ~checked.ok THEN checked
        ELSE Ok(Call_Native(fun))

\* NativeFunction::invoke: [result, ran (the body was run)]
Native_invoke(fun, nargs) ==
    LET checked == check_args(fun.signature, nargs)
    IN  IF ~checked.ok THEN [result |-> checked, ran |-> FALSE]
        ELSE [result |-> Ok("value"), ran |-> TRUE]

(***************************************************************************)
(* RuntimeError (runtime/errors.rs)                                        *)
(***************************************************************************)
RuntimeError(kind, traceback, cause) ==
    [kind |-> kind, traceback |-> traceback, cause |-> cause]

\* impl From<ErrorKind> for RuntimeError
RuntimeError_from(kind) == RuntimeError(kind, <<>>, None)

caused_by(self, cause) == [self EXCEPT !.cause = Some(cause)]

extend_trace(self, trace) == [self EXCEPT !.traceback = @ \o trace]

push_frame_first(self, site) == [self EXCEPT !.traceback = <<site>> \o @]

push_frame(self, site) == [self EXCEPT !.traceback = Append(@, site)]

(***************************************************************************)
(* Variant and VariantKey (runtime/variant.rs)                             *)
(***************************************************************************)
Variant(tag, val, items) == [tag |-> tag, val |-> val, items |-> items]
Nil == Variant("Nil", "", <<>>)
EmptyTuple == Variant("EmptyTuple", "", <<>>)
BoolTrue == Variant("BoolTrue", "", <<>>)
BoolFalse == Variant("BoolFalse", "", <<>>)
Integer(value) == Variant("Integer", value, <<>>)
Float(value) == Variant("Float", value, <<>>)
String(symbol) == Variant("String", symbol, <<>>)
Tuple(items) == Variant("Tuple", "", items)

\* enum Tuple of runtime/types/tuple.rs, in the shape of the Variant records
Tuple_Empty == Variant("Empty", "", <<>>)
Tuple_NonEmpty(items) == Variant("NonEmpty", "", items)

\* From<Box<[Variant]>> for Tuple
Tuple_from(items) == IF items = <<>> THEN Tuple_Empty ELSE Tuple_NonEmpty(items)

Tuple_len(self) == IF self.tag = "Empty" THEN 0 ELSE Len(self.items)
Tuple_is_empty(self) == self.tag = "Empty"

\* Variant::make_tuple
make_tuple(items) == Tuple(items)

\* <[T]>::split_last
split_last(items) ==
    IF items = <<>> THEN None
    ELSE Some([last |-> items[Len(items)], rest |-> SubSeq(items, 1, Len(items) - 1)])

\* fmt::Debug for Variant: "panic" where split_last().unwrap() meets None
RECURSIVE Variant_fmt_debug(_)
Variant_fmt_debug(self) ==
    IF self.tag # "Tuple" THEN "ok"
    ELSE IF ~is_some(split_last(self.items)) THEN "panic"
    ELSE IF \E i \in 1..Len(self.items) : Variant_fmt_debug(self.items[i]) = "panic"
         THEN "panic"
    ELSE "ok"

\* fmt::Display for Tuple
Tuple_fmt_display(self) ==
    IF self.tag = "Empty" THEN "ok"
    ELSE IF ~is_some(split_last(self.items)) THEN "panic"
    ELSE "ok"

can_hash_shallow(self) ==
    IF self.tag = "Float" THEN FALSE
    ELSE IF self.tag = "Tuple"
         THEN \A i \in 1..Len(self.items) : self.items[i].tag # "Float"
    ELSE TRUE

RECURSIVE can_hash(_)
can_hash(self) ==
    IF self.tag = "Float" THEN FALSE
    ELSE IF self.tag = "Tuple"
         THEN \A i \in 1..Len(self.items) : can_hash(self.items[i])
    ELSE TRUE

UnhashableValue(value) == [kind |-> "UnhashableValue", value |-> value]
VariantKey(value) == [key |-> value]

\* impl TryFrom<&Variant> for VariantKey
VariantKey_try_from(value) ==
    IF ~can_hash(value) THEN Err(RuntimeError_from(UnhashableValue(value)))
    ELSE Ok(VariantKey(value))

(***************************************************************************)
(* The process string table (runtime/strings.rs): a RefCell around the     *)
(* interner.  borrow_mut is refused while any borrow is live, borrow while *)
(* a mutable borrow is live; a refused borrow panics.                      *)
(***************************************************************************)
RefCell_new == [writers |-> 0, readers |-> 0]

RefCell_borrow_mut(c) ==
    IF c.writers > 0 \/ c.readers > 0 THEN [cell |-> c, panic |-> TRUE]
    ELSE [cell |-> [c EXCEPT !.writers = 1], panic |-> FALSE]

RefCell_borrow(c) ==
    IF c.writers > 0 THEN [cell |-> c, panic |-> TRUE]
    ELSE [cell |-> [c EXCEPT !.readers = @ + 1], panic |-> FALSE]

\* the RefMut or Ref of the call goes out of scope
RefCell_drop(c, held) ==
    IF held = "mut" THEN [c EXCEPT !.writers = 0] ELSE [c EXCEPT !.readers = @ - 1]

\* the calls that borrow the table, and the borrow each holds while it works:
\* Program::load and StringTable::get_or_intern hold a RefMut, Program::unload, 
\* StringKey::from_intern and StringValue::write_str a Ref
TableOps == {"load", "get_or_intern", "unload", "from_intern", "write_str"}
held_by(op) == IF op \in {"load", "get_or_intern"} THEN "mut" ELSE "shared"
loops(op) == op \in {"load", "unload"}

\* interning through the table while the RefMut of load is held
use_through_table(c, op) ==
    IF op = "load" THEN RefCell_borrow_mut(c)
    ELSE IF op = "unload" THEN RefCell_borrow(c)
    ELSE [cell |-> c, panic |-> FALSE]

\* what a call does with the borrow it holds: load interns and unload resolves
\* through their own RefMut and Ref, from_intern hashes the resolved text and
\* write_str hands it to the writer; none of them borrows again
use_borrow(c, op) == [cell |-> c, panic |-> FALSE]

(***************************************************************************)
(* BinaryOp (parser/binop.rs)                                              *)
(***************************************************************************)
BinaryOp ==
    {"Mul", "Div", "Mod", "Add", "Sub", "LShift", "RShift", "BitAnd", "BitXor", "BitOr",
     "LT", "GT", "LE", "GE", "EQ", "NE", "And", "Or"}

\* a table in which `and` and `or` have changed places
precedence_level_or_first(self) ==
    CASE self \in {"Mul", "Div", "Mod"} -> 2
      [] self \in {"Add", "Sub"} -> 3
      [] self \in {"LShift", "RShift"} -> 4
      [] self = "BitAnd" -> 5
      [] self = "BitXor" -> 6
      [] self = "BitOr" -> 7
      [] self \in {"LT", "GT", "LE", "GE", "EQ", "NE"} -> 8
      [] self = "Or" -> 9
      [] self = "And" -> 10

precedence_level(self) ==
    CASE self \in {"Mul", "Div", "Mod"} -> 2
      [] self \in {"Add", "Sub"} -> 3
      [] self \in {"LShift", "RShift"} -> 4
      [] self = "BitAnd" -> 5
      [] self = "BitXor" -> 6
      [] self = "BitOr" -> 7
      [] self \in {"LT", "GT", "LE", "GE", "EQ", "NE"} -> 8
      [] self = "And" -> 9
      [] self = "Or" -> 10

\* fmt::Display for BinaryOp: the operator as the source writes it
BinaryOp_fmt(self) ==
    CASE self = "Mul" -> "*"
      [] self = "Div" -> "/"
      [] self = "Mod" -> "%"
      [] self = "Add" -> "+"
      [] self = "Sub" -> "-"
      [] self = "LShift" -> "<<"
      [] self = "RShift" -> ">>"
      [] self = "BitAnd" -> "&"
      [] self = "BitXor" -> "^"
      [] self = "BitOr" -> "|"
      [] self = "LT" -> "<"
      [] self = "GT" -> ">"
      [] self = "LE" -> "<="
      [] self = "GE" -> ">="
      [] self = "EQ" -> "=="
      [] self = "NE" -> "!="
      [] self = "And" -> "and"
      [] self = "Or" -> "or"

(***************************************************************************)
(* MetaObject for StringValue (runtime/types/string.rs).  A string value   *)
(* is stood for by its text.  Each operation returns None ("unsupported")  *)
(* or Some(ExecResult).                                                    *)
(***************************************************************************)
\* Variant::as_strval: the string value of a string variant
as_strval(value) == IF value.tag = "String" THEN Some(value.val) ELSE None

\* the texts the string operations take and give, and the characters of each
AllTexts == {"a", "ab", "b", "aa", "aab", "aba", "abab", "abb", "ba", "bab", "bb"}

chars(text) ==
    CASE text = "a" -> <<"a">>
      [] text = "ab" -> <<"a", "b">>
      [] text = "b" -> <<"b">>
      [] text = "aa" -> <<"a", "a">>
      [] text = "aab" -> <<"a", "a", "b">>
      [] text = "aba" -> <<"a", "b", "a">>
      [] text = "abab" -> <<"a", "b", "a", "b">>
      [] text = "abb" -> <<"a", "b", "b">>
      [] text = "ba" -> <<"b", "a">>
      [] text = "bab" -> <<"b", "a", "b">>
      [] text = "bb" -> <<"b", "b">>

\* the text made of the given characters
text_of(cs) == CHOOSE text \in AllTexts : chars(text) = cs

\* StringValue::concat: the text of self followed by the text of other
concat(self, other) == Ok(text_of(chars(self) \o chars(other)))

\* the order of the texts the model uses
StringRank(text) == CASE text = "a" -> 1 [] text = "ab" -> 2 [] text = "b" -> 3 [] OTHER -> 4
str_eq(self, other) == self = other
str_lt(self, other) == StringRank(self) < StringRank(other)
str_le(self, other) == StringRank(self) <= StringRank(other)

\* Result::map(Variant::from)
map_Variant_from(result) == IF result.ok THEN Ok(String(result.value)) ELSE result

op_add(self, rhs) ==
    LET r == as_strval(rhs)
    IN  IF is_some(r) THEN Some(map_Variant_from(concat(self, unwrap(r)))) ELSE None

\* an op_radd that puts self first
op_radd_self_first(self, lhs) ==
    LET l == as_strval(lhs)
    IN  IF is_some(l) THEN Some(map_Variant_from(concat(self, unwrap(l)))) ELSE None

op_radd(self, lhs) ==
    LET l == as_strval(lhs)
    IN  IF is_some(l) THEN Some(map_Variant_from(concat(unwrap(l), self))) ELSE None

cmp_eq(self, other) ==
    LET o == as_strval(other)
    IN  IF is_some(o) THEN Some(Ok(str_eq(self, unwrap(o)))) ELSE None

cmp_lt(self, other) ==
    LET o == as_strval(other)
    IN  IF is_some(o) THEN Some(Ok(str_lt(self, unwrap(o)))) ELSE None

cmp_le(self, other) ==
    LET o == as_strval(other)
    IN  IF is_some(o) THEN Some(Ok(str_le(self, unwrap(o)))) ELSE None

StringTexts == {"a", "ab", "b"}
Operands ==
    {Nil, EmptyTuple, BoolTrue, Integer("1"), Float("1.5"), Tuple(<<String("a")>>)}
        \cup {String(text) : text \in StringTexts}

(***************************************************************************)
(* ErrorContext and ContextFrame (parser/errors.rs)                        *)
(***************************************************************************)
ContextFrame_new(tag) == [tag |-> tag, start |-> None, end |-> None]

span_lt(first, second) == first.index < second.index

set_start(frame, token) == [frame EXCEPT !.start = Some(token)]
set_end(frame, token) == [frame EXCEPT !.end = Some(token)]
set_span(frame, start, end) == [frame EXCEPT !.start = start, !.end = end]

\* an extend that takes every bound the other frame has
extend_overwrite(self, other) ==
    [self EXCEPT !.start = IF is_some(other.start) THEN other.start ELSE @,
                 !.end = IF is_some(other.end) THEN other.end ELSE @]

\* ContextFrame::extend
extend(self, other) ==
    [self EXCEPT
        !.start = IF is_some(self.start) /\ is_some(other.start)
                  THEN IF span_lt(unwrap(other.start), unwrap(self.start))
                       THEN other.start ELSE @
                  ELSE IF is_some(other.start) THEN other.start ELSE @,
        !.end = IF is_some(self.end) /\ is_some(other.end)
                THEN IF span_lt(unwrap(self.end), unwrap(other.end))
                     THEN other.end ELSE @
                ELSE IF is_some(other.end) THEN other.end ELSE @]

\* the stack with its innermost frame replaced
with_frame(stack, frame) == [stack EXCEPT ![Len(stack)] = frame]

ErrorContext_frame(stack) == stack[Len(stack)]
ErrorContext_push(stack, tag) == Append(stack, ContextFrame_new(tag))

\* a continuation that takes the whole span of the frame below it
ErrorContext_push_continuation_whole(stack, tag) ==
    LET below == ErrorContext_frame(stack)
        pushed == ErrorContext_push(stack, tag)
    IN  with_frame(pushed, set_span(ErrorContext_frame(pushed), below.start, below.end))

ErrorContext_push_continuation(stack, tag) ==
    LET start == ErrorContext_frame(stack).start
        pushed == ErrorContext_push(stack, tag)
    IN  with_frame(pushed, set_span(ErrorContext_frame(pushed), start, None))

\* returns [panic, stack, frame]: assert!(self.stack.len() > 1)
ErrorContext_pop(stack) ==
    IF ~(Len(stack) > 1) THEN [panic |-> TRUE, stack |-> stack, frame |-> None]
    ELSE [panic |-> FALSE, stack |-> SubSeq(stack, 1, Len(stack) - 1),
          frame |-> Some(stack[Len(stack)])]

ErrorContext_pop_extend(stack) ==
    LET p == ErrorContext_pop(stack)
    IN  IF p.panic THEN p
        ELSE [p EXCEPT !.stack = with_frame(p.stack,
                                            extend(ErrorContext_frame(p.stack),
                                                   unwrap(p.frame)))]

\* the spans of the tokens of one source text
TokenSpans == {Span(0, 2), Span(2, 1), Span(4, 3)}
ContextTags == {"Expr"}

(***************************************************************************)
(* Initial states                                                          *)
(***************************************************************************)
NoRet == Ret("", TRUE, -1, "")

\* ChunkBuilder::new, or with_strings given the interner the parser filled
BuilderInit ==
    /\ elided = 0
    /\ chunks = <<ChunkBuf_new>>
    /\ consts = <<>>
    /\ dedup = <<>>
    /\ strings \in { <<>>, << <<233, 97>> >> }
    /\ phase = "building"
    /\ unloaded = None
    /\ program = None
    /\ exported = None
    /\ string_table \in { <<>>, << <<97>> >> }
    /\ ret = NoRet
    /\ arg = None
    /\ calls = {}

BuilderIdle ==
    /\ elided = 0
    /\ chunks = <<ChunkBuf_new>>
    /\ consts = <<>>
    /\ dedup = <<>>
    /\ strings = <<>>
    /\ phase = "building"
    /\ unloaded = None
    /\ program = None
    /\ exported = None
    /\ string_table = <<>>
    /\ ret = NoRet
    /\ arg = None
    /\ calls = {}

\* a builder two chunks and two constants short of what the u16 ids can number:
\* new_chunk and get_or_insert_const have each succeeded NearLimit times
NearLimit == U16_MAX - 1
LimitCap == 4

BuilderNearLimit ==
    /\ elided = NearLimit - 1
    /\ chunks = <<ChunkBuf_new>>
    /\ consts = <<ElidedConst(NearLimit - 1)>>
    /\ dedup = (ElidedConst(NearLimit - 1) :> (NearLimit - 1))
    /\ strings = << <<97>> >>
    /\ phase = "building"
    /\ unloaded = None
    /\ program = None
    /\ exported = None
    /\ string_table = <<>>
    /\ ret = NoRet
    /\ arg = None
    /\ calls = {}

\* DebugSymbolTable::new
SymbolsInit ==
    /\ entries = <<>>
    /\ sym_ret = [offset |-> 0, result |-> "ok"]
    /\ lookup_ret = None

RECURSIVE SeqsUpTo(_, _)
SeqsUpTo(S, n) ==
    IF n = 0 THEN { <<>> }
    ELSE LET shorter == SeqsUpTo(S, n - 1)
         IN  shorter \cup {Append(q, c) : q \in {x \in shorter : Len(x) = n - 1}, c \in S}

LexerInit ==
    /\ input \in SeqsUpTo(Chars, MaxLen)
    /\ lexer = Lexer_build(input)
    /\ out = <<>>

\* the letters of the keywords, an underscore, a digit and a space
KeywordChars == {"i", "f", "n", "_", "1", " "}

KeywordLexerInit ==
    /\ input \in SeqsUpTo(KeywordChars, MaxLen)
    /\ lexer = Lexer_build(input)
    /\ out = <<>>

LexerIdle ==
    /\ input = <<>>
    /\ lexer = Lexer_build(<<>>)
    /\ out = <<>>

NoLine == ReadLine("", <<>>, <<>>)
NoSubmit == [text |-> <<>>, outcome |-> "", ast |-> None, compiled |-> None]

NoArgs == [file |-> FALSE, cmd |-> FALSE, interactive |-> FALSE,
           parse_only |-> FALSE, compile_only |-> FALSE]

MainInit ==
    /\ args \in Args
    /\ mpc = "start"
    /\ exit_status = None
    /\ caches = <<>>
    /\ envs = <<>>
    /\ repl = None
    /\ vms = <<>>
    /\ steps = <<>>

\* main, given no source, has entered Repl::run
MainInRepl ==
    /\ args = NoArgs
    /\ mpc = "repl"
    /\ exit_status = None
    /\ caches = << <<>> >>
    /\ envs = << {} >>
    /\ repl = Some(Repl_new(1, 1))
    /\ vms = <<>>
    /\ steps = <<"repl">>

MainIdle ==
    /\ args = NoArgs
    /\ mpc = "exit"
    /\ exit_status = Some(0)
    /\ caches = <<>>
    /\ envs = <<>>
    /\ repl = None
    /\ vms = <<>>
    /\ steps = <<>>

\* Repl::run has not been entered
ReplNotStarted ==
    /\ pc = "none"
    /\ repl_input = <<>>
    /\ parse_result = None
    /\ ast_interner = None
    /\ prompt = ""
    /\ stdin_eof = FALSE
    /\ nread = 0
    /\ line = NoLine
    /\ last_submit = NoSubmit
    /\ tick = 0

\* Repl::run is entered
ReplInit ==
    /\ pc = "read"
    /\ repl_input = <<>>
    /\ parse_result = None
    /\ ast_interner = None
    /\ prompt = ""
    /\ stdin_eof = FALSE
    /\ nread = 0
    /\ line = NoLine
    /\ last_submit = NoSubmit
    /\ tick = 0

ReplIdle ==
    /\ pc = "done"
    /\ repl_input = <<>>
    /\ parse_result = None
    /\ ast_interner = None
    /\ prompt = ""
    /\ stdin_eof = FALSE
    /\ nread = 0
    /\ line = NoLine
    /\ last_submit = NoSubmit
    /\ tick = 0

\* what a Parser may yield: statements and errors, told apart by a number
ParserResults == {Ok("s1"), Ok("s2"), Err("e1"), Err("e2")}

ParseInit ==
    /\ parser_output \in SeqsUpTo(ParserResults, MaxOutput)
    /\ parse_ast_ret = None

ParseIdle ==
    /\ parser_output = <<>>
    /\ parse_ast_ret = None

StackIndices == {0, 1}
Cells == {1, 2}

UpvalueInit ==
    /\ upvalues = <<>>
    /\ up_op = [op |-> "", i |-> 0, arg |-> 0]

Signatures ==
    { Signature(lo, hi) : lo \in 0..MaxArity,
                          hi \in {None} \cup {Some(n) : n \in 0..MaxArity} }

\* the maximum arity of a signature is not below its minimum
WellFormed(signature) ==
    ~is_some(signature.max_arity) \/ signature.min_arity <= unwrap(signature.max_arity)

Callees ==
    { [kind |-> k, signature |-> sig, module |-> "m", fun_id |-> 1] :
        k \in {"Function", "Native"}, sig \in {x \in Signatures : WellFormed(x)} }

CallInit ==
    /\ callee \in Callees
    /\ call_nargs \in 0..MaxArgs
    /\ call_ret = None
    /\ native_runs = 0

CallIdle ==
    /\ callee = [kind |-> "Function", signature |-> Signature(0, None),
                 module |-> "m", fun_id |-> 1]
    /\ call_nargs = 0
    /\ call_ret = None
    /\ native_runs = 0

ErrorKinds == {"DivideByZero", "AssertFailed"}
TraceSites == {"f", "g"}

ErrorInit ==
    /\ error_val = None
    /\ err_op = [op |-> "", arg |-> ""]

\* values that are no tuple of items
Atoms == {Nil, EmptyTuple, BoolTrue, Integer("1"), Float("1.5"), String("s")}

\* tuples of atoms; tuples holding one such tuple; a tuple nested once more
FlatTuples == {Tuple(items) : items \in SeqsUpTo(Atoms, MaxTupleLen) \ {<<>>}}
NestedTuples ==
    {Tuple(<<t>>) : t \in FlatTuples}
        \cup {Tuple(<<a, t>>) : a \in {BoolFalse, Float("1.5")}, t \in FlatTuples}
DeepTuples == {Tuple(<<Nil, t>>) : t \in NestedTuples}

Variants == Atoms \cup {BoolFalse} \cup FlatTuples \cup NestedTuples \cup DeepTuples

VariantInit ==
    /\ variant \in Variants
    /\ hash_ret = None

VariantIdle ==
    /\ variant = Nil
    /\ hash_ret = None

TableIdle ==
    /\ cell = RefCell_new
    /\ tcall = None
    /\ tdone = <<>>
    /\ borrow_panic = FALSE

BinopIdle == queries = <<>>
StringOpIdle == strop = None

\* Tuple::default()
TupleIdle ==
    /\ made = Tuple_Empty
    /\ made_by = ""
    /\ fmt_ret = ""

\* ChunkBuf::new()
BufIdle ==
    /\ buf = ChunkBuf_new
    /\ buf_op = BufOp("new", 0, <<>>, 0, 0, FALSE)

\* ErrorContext::new(module, base)
ContextIdle ==
    /\ ctx_stack = <<ContextFrame_new("TopLevel")>>
    /\ ctx_op = "new"
    /\ ctx_ret = None

DisplayIdle ==
    /\ fmt_value = Nil
    /\ fmt_stack = <<>>
    /\ fmt_out = <<>>
    /\ fmt_state = "idle"

\* the components of the later sections at rest
LibraryIdle ==
    /\ TableIdle /\ BinopIdle /\ StringOpIdle /\ DisplayIdle /\ ContextIdle
    /\ BufIdle /\ TupleIdle

RuntimeIdle ==
    /\ ParseIdle /\ UpvalueInit /\ CallIdle /\ ErrorInit /\ VariantIdle /\ LibraryIdle

(***************************************************************************)
(* Builder actions                                                         *)
(***************************************************************************)
ByteVals == {7, 9}

\* the constants a caller may pass: a String constant names an interned string
\* (the debug_assert of get_or_insert_const)
ConstInputs(strs) ==
    {Constant_Integer(1)} \cup {Constant_Float(f) : f \in {"0.0", "-0.0"}}
        \cup {Constant_String(i) : i \in 0..(Len(strs) - 1)}

\* the constant as the caller means it: a string constant is its text
ConstKey(strs, value) ==
    IF value.tag = "String" THEN [tag |-> "String", a |-> 0, b |-> strs[value.a + 1]]
    ELSE value

NewChunkOp(cap) ==
    /\ phase = "building"
    /\ Len(chunks) < cap
    /\ LET r == new_chunk(elided, chunks)
       IN  /\ chunks' = r.chunks
           /\ ret' = r.ret
    /\ arg' = None
    /\ UNCHANGED <<elided, consts, dedup, strings, phase, unloaded, program, string_table, exported, calls>>
    /\ UNCHANGED notB

PushByte ==
    /\ phase = "building"
    /\ \E chunk_id \in 0..(Len(chunks) - 1), byte \in ByteVals :
        /\ Len(chunks[chunk_id + 1].bytes) < MaxChunkLen
        /\ chunks' = [chunks EXCEPT ![chunk_id + 1] = push_byte(@, byte)]
    /\ ret' = Ret("push_byte", TRUE, -1, "")
    /\ arg' = None
    /\ UNCHANGED <<elided, consts, dedup, strings, phase, unloaded, program, string_table, exported, calls>>
    /\ UNCHANGED notB

GetOrInsertConstOp(cap) ==
    /\ phase = "building"
    /\ \E value \in ConstInputs(strings) :
        /\ Len(consts) < cap \/ value \in DOMAIN dedup
        /\ LET r == get_or_insert_const(elided, consts, dedup, value, "get_or_insert_const")
           IN  /\ consts' = r.consts
               /\ dedup' = r.dedup
               /\ ret' = r.ret
               /\ arg' = Some(value)
               /\ calls' = IF r.ret.ok
                           THEN calls \cup {<<ConstKey(strings, value), r.ret.id>>}
                           ELSE calls
    /\ UNCHANGED <<elided, chunks, strings, phase, unloaded, program, string_table, exported>>
    /\ UNCHANGED notB

GetOrInsertStr ==
    /\ phase = "building"
    /\ \E string \in Texts :
        /\ \/ Len(consts) < MaxConsts
           \/ \E i \in 1..Len(strings) :
                strings[i] = string /\ Constant_String(i - 1) \in DOMAIN dedup
        /\ LET r == get_or_insert_str(elided, consts, dedup, strings, string)
           IN  /\ consts' = r.consts
               /\ dedup' = r.dedup
               /\ strings' = r.strings
               /\ ret' = r.ret
               /\ arg' = Some(Constant_String(interner_get_or_intern(strings, string).symbol))
               /\ calls' = IF r.ret.ok
                           THEN calls \cup {<<[tag |-> "String", a |-> 0, b |-> string], r.ret.id>>}
                           ELSE calls
    /\ UNCHANGED <<elided, chunks, phase, unloaded, program, string_table, exported>>
    /\ UNCHANGED notB

Build ==
    /\ phase = "building"
    /\ elided = 0
    /\ phase' = "built"
    /\ unloaded' = Some(build(chunks, consts, strings))
    /\ ret' = Ret("build", TRUE, -1, "")
    /\ arg' = None
    /\ UNCHANGED <<elided, chunks, consts, dedup, strings, program, string_table, exported, calls>>
    /\ UNCHANGED notB

Load ==
    /\ phase = "built"
    /\ LET r == load(unwrap(unloaded), string_table)
       IN  IF r.panic
           THEN /\ phase' = "panic"
                /\ ret' = Ret("load", FALSE, -1, "panic")
                /\ UNCHANGED <<program, string_table, exported>>
           ELSE /\ phase' = "loaded"
                /\ program' = Some(r.program)
                /\ string_table' = r.string_table
                /\ ret' = Ret("load", TRUE, -1, "")
    /\ arg' = None
    /\ UNCHANGED <<elided, chunks, consts, dedup, strings, unloaded, exported, calls>>
    /\ UNCHANGED notB

Unload ==
    /\ phase = "loaded"
    /\ LET r == unload(unwrap(program), string_table)
       IN  IF r.panic
           THEN /\ phase' = "panic"
                /\ ret' = Ret("unload", FALSE, -1, "panic")
                /\ UNCHANGED exported
           ELSE /\ phase' = "unloaded"
                /\ exported' = Some(r.unloaded)
                /\ ret' = Ret("unload", TRUE, -1, "")
    /\ arg' = None
    /\ UNCHANGED <<elided, chunks, consts, dedup, strings, unloaded, program, string_table, calls>>
    /\ UNCHANGED notB

NewChunk == NewChunkOp(MaxChunks)
GetOrInsertConst == GetOrInsertConstOp(MaxConsts)

\* the same calls on a builder near the limit of the ids
NewChunkAtLimit == NewChunkOp(LimitCap)
GetOrInsertConstAtLimit == GetOrInsertConstOp(LimitCap)

\* build and load of the builder near the limit: the elided chunks are empty and
\* lie before the written ones, so the written chunks keep their offsets
BuildAtLimit ==
    /\ phase = "building"
    /\ phase' = "built"
    /\ unloaded' = Some(build(chunks, consts, strings))
    /\ ret' = Ret("build", TRUE, -1, "")
    /\ arg' = None
    /\ UNCHANGED <<elided, chunks, consts, dedup, strings, program, string_table, exported, calls>>
    /\ UNCHANGED notB

LoadAtLimit ==
    /\ phase = "built"
    /\ LET r == load_elided(elided, unwrap(unloaded), string_table)
       IN  /\ string_table' = r.string_table
           /\ IF r.panic
              THEN /\ phase' = "panic"
                   /\ ret' = Ret("load", FALSE, -1, "panic")
                   /\ UNCHANGED program
              ELSE /\ phase' = "loaded"
                   /\ program' = Some(r.program)
                   /\ ret' = Ret("load", TRUE, -1, "")
    /\ arg' = None
    /\ UNCHANGED <<elided, chunks, consts, dedup, strings, unloaded, exported, calls>>
    /\ UNCHANGED notB

(***************************************************************************)
(* Symbol table actions                                                    *)
(***************************************************************************)
DebugSymbols == {None, Some(<<0, 3>>)}

Insert ==
    /\ \E offset \in 0..MaxOffset, symbol \in DebugSymbols :
        LET r == table_insert(entries, offset, symbol)
        IN  /\ entries' = r.entries
            /\ sym_ret' = [offset |-> offset, result |-> r.result]
    /\ UNCHANGED lookup_ret
    /\ UNCHANGED notS

Lookup ==
    /\ \E offset \in 0..(MaxOffset + 1) :
        lookup_ret' = Some([offset |-> offset, symbol |-> table_lookup(entries, offset)])
    /\ UNCHANGED <<entries, sym_ret>>
    /\ UNCHANGED notS

(***************************************************************************)
(* Lexer actions                                                           *)
(***************************************************************************)
\* a call of next_token that returns
NextToken ==
    /\ Len(out) < MaxCalls
    /\ \A i \in 1..Len(out) : out[i].kind # "panic"
    /\ LET r == next_token(lexer)
       IN  /\ lexer' = r.lexer
           /\ out' = Append(out, r.result)
    /\ UNCHANGED input
    /\ UNCHANGED notL

(***************************************************************************)
(* REPL actions: one pass of the inner loop per arm of its match, and the  *)
(* rest of the outer loop's body                                           *)
(***************************************************************************)
LineTexts ==
    { <<>>, <<" ">>, <<"x">>, <<"x", ";">>, <<"x", ";", " ">>, <<"{">>, <<"}">>,
      <<"{", "x", ";">>, QUIT, QUIT \o <<";">>, <<"x", EOT>>, <<EOT, ";">>,
      <<";">>, <<"x", ";", "x">>, <<"x", "{">> }

\* what io::stdin().read_line may deliver: [raw, io_error, eof]
ReadCap == IF args = NoArgs THEN MaxReads ELSE MaxArgReads

Reads ==
    IF stdin_eof \/ nread >= ReadCap
    THEN { [raw |-> <<>>, io_error |-> FALSE, eof |-> TRUE] }
    ELSE { [raw |-> Append(t, "\n"), io_error |-> FALSE, eof |-> FALSE] : t \in LineTexts }
         \cup { [raw |-> <<>>, io_error |-> TRUE, eof |-> FALSE],
                [raw |-> <<>>, io_error |-> FALSE, eof |-> TRUE] }

\* the prompt is written and read_line returns r
Read(rd, r) ==
    /\ pc = "read"
    /\ rd \in Reads
    /\ r = read_line(rd.raw, rd.io_error)
    /\ prompt' = prompt_for(repl_input)
    /\ tick' = 1 - tick
    /\ stdin_eof' = (stdin_eof \/ rd.eof)
    /\ nread' = IF rd.eof THEN nread ELSE nread + 1
    /\ line' = r
    /\ UNCHANGED last_submit
    /\ UNCHANGED notR

ReadQuit ==
    \E rd \in Reads :
        LET r == read_line(rd.raw, rd.io_error)
        IN  /\ r.kind = "Quit"
            /\ Read(rd, r)
            /\ pc' = "done"
            /\ ast_interner' = new_interner(ast_interner)
            /\ UNCHANGED <<repl_input, parse_result>>

ReadRestart ==
    \E rd \in Reads :
        LET r == read_line(rd.raw, rd.io_error)
        IN  /\ r.kind = "Restart"
            /\ Read(rd, r)
            /\ pc' = "read"
            /\ ast_interner' = new_interner(ast_interner)
            /\ UNCHANGED <<repl_input, parse_result>>

ReadEmpty ==
    \E rd \in Reads :
        LET r == read_line(rd.raw, rd.io_error)
        IN  /\ r.kind = "Empty"
            /\ Read(rd, r)
            /\ pc' = IF repl_input = <<>> THEN "read" ELSE "submit"
            /\ ast_interner' = new_interner(ast_interner)
            /\ UNCHANGED <<repl_input, parse_result>>

ReadOk ==
    \E rd \in Reads :
        LET r == read_line(rd.raw, rd.io_error)
            o == on_line(repl_input, r.text)
        IN  /\ r.kind = "Ok"
            /\ Read(rd, r)
            /\ repl_input' = o.input
            /\ parse_result' = o.parse_result
            /\ ast_interner' = IF is_some(o.parse_result) THEN parse_in_loop_interner
                             ELSE new_interner(ast_interner)
            /\ pc' = IF o.break THEN "submit" ELSE "read"

\* after the inner loop: parse unless parsed already, then compile, load and run;
\* whether compile_ast and vm.run succeed is left open
Submit ==
    /\ pc = "submit"
    /\ LET parsed == IF is_some(parse_result) THEN [ok |-> TRUE, ast |-> unwrap(parse_result)]
                     ELSE parse_source(repl_input)
           ast == echo_rewrite(parsed.ast)
           r == unwrap(repl)
           env == submit_env(r, envs)
           es == IF env > Len(envs) THEN Append(envs, {}) ELSE envs
       IN  \E compiled \in BOOLEAN, ran \in BOOLEAN, defined \in SUBSET Globals :
            /\ last_submit' = [text |-> repl_input,
                               outcome |-> IF ~parsed.ok THEN "parse_error"
                                           ELSE IF ~compiled THEN "compile_error"
                                           ELSE IF ~ran THEN "runtime_error"
                                           ELSE "ok",
                               ast |-> IF parsed.ok THEN Some(parsed.ast) ELSE None,
                               compiled |-> IF parsed.ok THEN Some(ast) ELSE None]
            /\ IF parsed.ok /\ compiled
               THEN /\ caches' = ModuleCache_insert(caches, r.module_cache,
                                                    ModuleSource_new("<repl>", "String"))
                    /\ envs' = define_globals(es, env, defined)
                    /\ vms' = Append(vms, Vm("new_repl", r.module_cache, env,
                                             es[env], defined, ran))
               ELSE /\ defined = {} /\ ran
                    /\ UNCHANGED <<caches, envs, vms>>
            /\ (~parsed.ok => compiled)
    /\ repl_input' = <<>>
    /\ parse_result' = None
    /\ ast_interner' = None
    /\ pc' = "read"
    /\ line' = NoLine
    /\ UNCHANGED <<prompt, stdin_eof, nread, tick>>
    /\ UNCHANGED <<args, mpc, exit_status, repl, steps>>
    /\ UNCHANGED notRM

(***************************************************************************)
(* main: one action per branch                                             *)
(***************************************************************************)
\* how sphinx_lang::build_module may end for a module
BuildOutcomes(module) ==
    {"ok", "syntax", "compile"} \cup (IF module.source = "File" THEN {"source"} ELSE {})

\* build_program: None after printing the errors, Some(build) otherwise
build_program(outcome) == IF outcome = "ok" THEN Some("build") ELSE None

\* the exit status of a process whose main returned, or panicked
exit_of(panicked) == IF panicked THEN 101 ELSE 0

ReplUntouched ==
    UNCHANGED <<repl_input, parse_result, ast_interner, prompt, stdin_eof, nread, line,
                last_submit, tick>>

Exit(panicked) ==
    /\ mpc' = "exit"
    /\ exit_status' = Some(exit_of(panicked))
    /\ UNCHANGED pc

EnterRepl(module_cache, repl_env) ==
    /\ repl' = Some(Repl_new(module_cache, repl_env))
    /\ mpc' = "repl"
    /\ exit_status' = None
    /\ pc' = "read"

\* no source: the REPL is started on a new ModuleCache and a new GlobalEnv
MainStartRepl ==
    /\ mpc = "start"
    /\ mode(args) = "repl"
    /\ caches' = Append(caches, <<>>)
    /\ envs' = Append(envs, {})
    /\ steps' = <<"repl">>
    /\ EnterRepl(Len(caches) + 1, Len(envs) + 1)
    /\ ReplUntouched
    /\ UNCHANGED <<args, vms>>
    /\ UNCHANGED notRM

\* -P: parse_and_print_ast
MainParseOnly ==
    /\ mpc = "start"
    /\ mode(args) = "parse_only"
    /\ \E outcome \in BuildOutcomes(unwrap(select_module(args))) \ {"compile"} :
        steps' = IF outcome = "source" THEN <<"source_error">>
                 ELSE IF outcome = "syntax" THEN <<"parse", "print_errors">>
                 ELSE <<"parse", "print_ast">>
    /\ Exit(FALSE)
    /\ ReplUntouched
    /\ UNCHANGED <<args, caches, envs, repl, vms>>
    /\ UNCHANGED notRM

\* -d: unimplemented!()
MainCompileOnly ==
    /\ mpc = "start"
    /\ mode(args) = "compile_only"
    /\ steps' = <<"unimplemented">>
    /\ Exit(TRUE)
    /\ ReplUntouched
    /\ UNCHANGED <<args, caches, envs, repl, vms>>
    /\ UNCHANGED notRM

\* -i: build, load, run on a new ModuleCache and GlobalEnv, then the REPL on both
MainInteractive ==
    /\ mpc = "start"
    /\ mode(args) = "interactive"
    /\ LET module == unwrap(select_module(args))
       IN  \E outcome \in BuildOutcomes(module), ran \in BOOLEAN, defined \in SUBSET Globals :
            IF ~is_some(build_program(outcome))
            THEN /\ ran /\ defined = {}
                 /\ steps' = <<"build", "print_errors">>
                 /\ Exit(FALSE)
                 /\ UNCHANGED <<caches, envs, repl, vms>>
            ELSE /\ caches' = Append(caches, <<module.name>>)
                 /\ envs' = Append(envs, defined)
                 /\ vms' = Append(vms, Vm("new_repl", Len(caches) + 1, Len(envs) + 1,
                                          {}, defined, ran))
                 /\ IF ran
                    THEN /\ steps' = <<"build", "load", "run", "repl">>
                         /\ EnterRepl(Len(caches) + 1, Len(envs) + 1)
                    ELSE /\ steps' = <<"build", "load", "run">>
                         /\ Exit(TRUE)
                         /\ UNCHANGED repl
    /\ ReplUntouched
    /\ UNCHANGED args
    /\ UNCHANGED notRM

\* a source and none of -P, -d, -i: build, load and run
MainRun ==
    /\ mpc = "start"
    /\ mode(args) = "run"
    /\ LET module == unwrap(select_module(args))
       IN  \E outcome \in BuildOutcomes(module), ran \in BOOLEAN, defined \in SUBSET Globals :
            IF ~is_some(build_program(outcome))
            THEN /\ ran /\ defined = {}
                 /\ steps' = <<"build", "print_errors">>
                 /\ Exit(FALSE)
                 /\ UNCHANGED <<caches, vms>>
            ELSE /\ caches' = Append(caches, <<module.name>>)
                 /\ vms' = Append(vms, Vm("new", Len(caches) + 1, 0, {}, defined, ran))
                 /\ steps' = <<"build", "load", "run">>
                 /\ Exit(~ran)
    /\ ReplUntouched
    /\ UNCHANGED <<args, envs, repl>>
    /\ UNCHANGED notRM

\* Repl::run has returned to main, which returns
MainReplReturns ==
    /\ mpc = "repl"
    /\ pc = "done"
    /\ Exit(FALSE)
    /\ ReplUntouched
    /\ UNCHANGED <<args, caches, envs, repl, vms, steps>>
    /\ UNCHANGED notRM

(***************************************************************************)
(* The parse context                                                       *)
(***************************************************************************)
ParseAst ==
    /\ parse_ast_ret = None
    /\ parse_ast_ret' = Some(parse_ast(parser_output))
    /\ UNCHANGED parser_output
    /\ UNCHANGED notP

(***************************************************************************)
(* Upvalues: a closure is made over a stack slot; a scope is left and the  *)
(* upvalues over its slots, still open, are closed                         *)
(***************************************************************************)
NewUpvalue ==
    /\ Len(upvalues) < MaxUpvalues
    /\ \E index \in StackIndices :
        /\ upvalues' = Append(upvalues, Upvalue_new(index))
        /\ up_op' = [op |-> "new", i |-> Len(upvalues) + 1, arg |-> index]
    /\ UNCHANGED notU

CloseUpvalue ==
    /\ \E i \in 1..Len(upvalues), gc_cell \in Cells :
        /\ is_open(upvalues[i])
        /\ upvalues' = [upvalues EXCEPT ![i] = Upvalue_close(@, gc_cell)]
        /\ up_op' = [op |-> "close", i |-> i, arg |-> gc_cell]
    /\ UNCHANGED notU

(***************************************************************************)
(* Calls                                                                   *)
(***************************************************************************)
FunctionCheckedCall ==
    /\ callee.kind = "Function"
    /\ call_ret = None
    /\ call_ret' = Some([op |-> "checked_call",
                         result |-> Function_checked_call(callee, call_nargs)])
    /\ UNCHANGED <<callee, call_nargs, native_runs>>
    /\ UNCHANGED notC

NativeCheckedCall ==
    /\ callee.kind = "Native"
    /\ call_ret = None
    /\ call_ret' = Some([op |-> "checked_call",
                         result |-> Native_checked_call(callee, call_nargs)])
    /\ UNCHANGED <<callee, call_nargs, native_runs>>
    /\ UNCHANGED notC

NativeInvoke ==
    /\ callee.kind = "Native"
    /\ call_ret = None
    /\ LET r == Native_invoke(callee, call_nargs)
       IN  /\ call_ret' = Some([op |-> "invoke", result |-> r.result])
           /\ native_runs' = IF r.ran THEN native_runs + 1 ELSE native_runs
    /\ UNCHANGED <<callee, call_nargs>>
    /\ UNCHANGED notC

(***************************************************************************)
(* A RuntimeError: raised from an ErrorKind, then handed up frame by frame *)
(***************************************************************************)
Raise ==
    /\ error_val = None
    /\ \E kind \in ErrorKinds :
        /\ error_val' = Some(RuntimeError_from(kind))
        /\ err_op' = [op |-> "from", arg |-> kind]
    /\ UNCHANGED notE

PushFrame ==
    /\ is_some(error_val)
    /\ Len(unwrap(error_val).traceback) < MaxTrace
    /\ \E site \in TraceSites :
        /\ error_val' = Some(push_frame(unwrap(error_val), site))
        /\ err_op' = [op |-> "push_frame", arg |-> site]
    /\ UNCHANGED notE

ExtendTrace ==
    /\ is_some(error_val)
    /\ \E trace \in SeqsUpTo(TraceSites, MaxTrace - Len(unwrap(error_val).traceback)) :
        /\ error_val' = Some(extend_trace(unwrap(error_val), trace))
        /\ err_op' = [op |-> "extend_trace", arg |-> trace]
    /\ UNCHANGED notE

CausedBy ==
    /\ is_some(error_val)
    /\ \E kind \in ErrorKinds, trace \in SeqsUpTo(TraceSites, 1) :
        LET cause == RuntimeError(kind, trace, None)
        IN  /\ error_val' = Some(caused_by(unwrap(error_val), cause))
            /\ err_op' = [op |-> "caused_by", arg |-> cause]
    /\ UNCHANGED notE

(***************************************************************************)
(* Calls on the process string table, one statement at a time              *)
(***************************************************************************)
TableCall ==
    /\ tcall = None
    /\ ~borrow_panic
    /\ Len(tdone) < MaxTableCalls
    /\ \E op \in TableOps, n \in 0..MaxProgramStrings :
        /\ loops(op) \/ n = 1
        /\ tcall' = Some([op |-> op, pc |-> "start", left |-> n])
    /\ UNCHANGED <<cell, tdone, borrow_panic>>
    /\ UNCHANGED notT

\* let mut interner = string_table.interner_mut(); self.interner.borrow_mut()
TableBorrowMut ==
    /\ is_some(tcall)
    /\ ~borrow_panic
    /\ unwrap(tcall).pc = "start"
    /\ held_by(unwrap(tcall).op) = "mut"
    /\ LET r == RefCell_borrow_mut(cell)
       IN  /\ cell' = r.cell
           /\ borrow_panic' = r.panic
           /\ tcall' = IF r.panic THEN tcall ELSE Some([unwrap(tcall) EXCEPT !.pc = "held"])
    /\ UNCHANGED tdone
    /\ UNCHANGED notT

\* let interner = string_table.interner(); string_table.resolve(sym)
TableBorrow ==
    /\ is_some(tcall)
    /\ ~borrow_panic
    /\ unwrap(tcall).pc = "start"
    /\ held_by(unwrap(tcall).op) = "shared"
    /\ LET r == RefCell_borrow(cell)
       IN  /\ cell' = r.cell
           /\ borrow_panic' = r.panic
           /\ tcall' = IF r.panic THEN tcall ELSE Some([unwrap(tcall) EXCEPT !.pc = "held"])
    /\ UNCHANGED tdone
    /\ UNCHANGED notT

\* one pass of the loop of load or unload, or the one use the other calls make
TableUse ==
    /\ is_some(tcall)
    /\ ~borrow_panic
    /\ unwrap(tcall).pc = "held"
    /\ unwrap(tcall).left > 0
    /\ LET r == use_borrow(cell, unwrap(tcall).op)
       IN  /\ cell' = r.cell
           /\ borrow_panic' = r.panic
           /\ tcall' = IF r.panic THEN tcall ELSE Some([unwrap(tcall) EXCEPT !.left = @ - 1])
    /\ UNCHANGED tdone
    /\ UNCHANGED notT

\* the call returns and its borrow goes out of scope
TableDrop ==
    /\ is_some(tcall)
    /\ ~borrow_panic
    /\ unwrap(tcall).pc = "held"
    /\ unwrap(tcall).left = 0
    /\ cell' = RefCell_drop(cell, held_by(unwrap(tcall).op))
    /\ tcall' = None
    /\ tdone' = Append(tdone, unwrap(tcall).op)
    /\ UNCHANGED borrow_panic
    /\ UNCHANGED notT

(***************************************************************************)
(* The parser asks an operator for its level                               *)
(***************************************************************************)
PrecedenceLevel ==
    /\ Len(queries) < MaxQueries
    /\ \E op \in BinaryOp :
        queries' = Append(queries, [op |-> op, level |-> precedence_level(op)])
    /\ UNCHANGED notO

(***************************************************************************)
(* Operations on a string value                                            *)
(***************************************************************************)
\* the record kept of a call: the operation, its operands and what it returned
StringCall(op, self, other, result) ==
    [op |-> op, self |-> self, other |-> other, ret |-> result]

OpAdd ==
    \E self \in StringTexts, rhs \in Operands :
        /\ strop' = Some(StringCall("op_add", self, rhs, op_add(self, rhs)))
        /\ UNCHANGED notX

OpRAdd ==
    \E self \in StringTexts, lhs \in Operands :
        /\ strop' = Some(StringCall("op_radd", self, lhs, op_radd(self, lhs)))
        /\ UNCHANGED notX

CmpEq ==
    \E self \in StringTexts, other \in Operands :
        /\ strop' = Some(StringCall("cmp_eq", self, other, cmp_eq(self, other)))
        /\ UNCHANGED notX

CmpLt ==
    \E self \in StringTexts, other \in Operands :
        /\ strop' = Some(StringCall("cmp_lt", self, other, cmp_lt(self, other)))
        /\ UNCHANGED notX

CmpLe ==
    \E self \in StringTexts, other \in Operands :
        /\ strop' = Some(StringCall("cmp_le", self, other, cmp_le(self, other)))
        /\ UNCHANGED notX

(***************************************************************************)
(* fmt::Display for Variant (runtime/variant.rs), one call of fmt or write *)
(* at a time                                                               *)
(***************************************************************************)
DisplayValues ==
    {Nil, EmptyTuple, BoolTrue, BoolFalse, Integer("3"), Float("1.5"), String("a"),
     Tuple(<<String("a")>>), Tuple(<<String("a"), String("b")>>),
     Tuple(<<Tuple(<<String("a"), String("b")>>), String("a")>>),
     Tuple(<<String("a"), Integer("3")>>), Tuple(<<Tuple(<<Nil>>)>>),
     Tuple(<<String("b"), String("a"), String("b")>>)}

Frame(value) == [value |-> value, item |-> 1, after |-> FALSE]

\* the innermost call returns; the outermost one ends the formatting
fmt_return(stack) == SubSeq(stack, 1, Len(stack) - 1)
state_after(stack) == IF stack = <<>> THEN "done" ELSE "running"

\* a call of fmt on a value: a new frame if the stack has room for one
fmt_enter(stack, value) ==
    IF Len(stack) < MaxStack THEN [stack |-> Append(stack, Frame(value)), state |-> "running"]
    ELSE [stack |-> stack, state |-> "overflow"]

\* echo formats a value
FmtCall ==
    /\ fmt_state = "idle"
    /\ \E value \in DisplayValues :
        /\ fmt_value' = value
        /\ fmt_stack' = <<Frame(value)>>
    /\ fmt_out' = <<>>
    /\ fmt_state' = "running"
    /\ UNCHANGED notD

\* Self::String(value) => write!(fmt, "{}", value)
FmtString ==
    /\ fmt_state = "running"
    /\ LET top == fmt_stack[Len(fmt_stack)]
       IN  /\ top.value.tag = "String"
           /\ fmt_out' = Append(fmt_out, top.value.val)
           /\ fmt_stack' = fmt_return(fmt_stack)
           /\ fmt_state' = state_after(fmt_stack')
    /\ UNCHANGED fmt_value
    /\ UNCHANGED notD

\* Self::Tuple(items): "(", then every item but the last followed by ", ", then the
\* last item followed by ")"; each item is formatted by a call of fmt on it
FmtTuple ==
    /\ fmt_state = "running"
    /\ LET depth == Len(fmt_stack)
           top == fmt_stack[depth]
           items == top.value.items
       IN  /\ top.value.tag = "Tuple"
           /\ IF ~top.after
              THEN LET e == fmt_enter([fmt_stack EXCEPT ![depth].after = TRUE],
                                      items[top.item])
                   IN  /\ fmt_stack' = e.stack
                       /\ fmt_state' = e.state
                       /\ fmt_out' = IF top.item = 1 THEN Append(fmt_out, "(") ELSE fmt_out
              ELSE IF top.item < Len(items)
              THEN /\ fmt_out' = Append(fmt_out, ", ")
                   /\ fmt_stack' = [fmt_stack EXCEPT ![depth].item = @ + 1,
                                                     ![depth].after = FALSE]
                   /\ fmt_state' = "running"
              ELSE /\ fmt_out' = Append(fmt_out, ")")
                   /\ fmt_stack' = fmt_return(fmt_stack)
                   /\ fmt_state' = state_after(fmt_stack')
    /\ UNCHANGED fmt_value
    /\ UNCHANGED notD

\* _ => write!(fmt, "{}", self): Display of the same value, that is this fmt again
FmtSelf ==
    /\ fmt_state = "running"
    /\ LET top == fmt_stack[Len(fmt_stack)]
           e == fmt_enter(fmt_stack, top.value)
       IN  /\ top.value.tag \notin {"String", "Tuple"}
           /\ fmt_stack' = e.stack
           /\ fmt_state' = e.state
    /\ UNCHANGED <<fmt_value, fmt_out>>
    /\ UNCHANGED notD

(***************************************************************************)
(* Calls on one ChunkBuf                                                   *)
(***************************************************************************)
Patches == UNION {[1..n -> ByteVals] : n \in 0..MaxPatch}

BufPushByte ==
    /\ ~buf_op.panic
    /\ Len(buf.bytes) < MaxBuf
    /\ \E byte \in ByteVals :
        /\ buf' = push_byte(buf, byte)
        /\ buf_op' = BufOp("push_byte", 0, <<byte>>, 0, 0, FALSE)
    /\ UNCHANGED notF

BufPatchBytes ==
    /\ ~buf_op.panic
    /\ \E offset \in 0..MaxBuf, patch \in Patches :
        LET r == patch_bytes(buf, offset, patch)
        IN  /\ buf' = r.chunk
            /\ buf_op' = BufOp("patch_bytes", offset, patch, 0, 0, r.panic)
    /\ UNCHANGED notF

BufResizePatch ==
    /\ ~buf_op.panic
    /\ \E offset \in 0..MaxBuf, from_len \in 0..MaxPatch, to_len \in 0..MaxPatch :
        /\ Len(buf.bytes) - from_len + to_len <= MaxBuf
        /\ LET r == resize_patch(buf, offset, from_len, to_len)
           IN  /\ buf' = r.chunk
               /\ buf_op' = BufOp("resize_patch", offset, <<>>, from_len, to_len, r.panic)
    /\ UNCHANGED notF

(***************************************************************************)
(* Constructing a tuple and formatting it                                  *)
(***************************************************************************)
ItemLists == SeqsUpTo(Atoms, MaxTupleLen)

TupleFrom ==
    /\ made_by = ""
    /\ \E items \in ItemLists : made' = Tuple_from(items)
    /\ made_by' = "Tuple::from"
    /\ UNCHANGED fmt_ret
    /\ UNCHANGED notG

MakeTuple ==
    /\ made_by = ""
    /\ \E items \in ItemLists : made' = make_tuple(items)
    /\ made_by' = "make_tuple"
    /\ UNCHANGED fmt_ret
    /\ UNCHANGED notG

FmtTupleDisplay ==
    /\ made_by = "Tuple::from"
    /\ fmt_ret = ""
    /\ fmt_ret' = Tuple_fmt_display(made)
    /\ UNCHANGED <<made, made_by>>
    /\ UNCHANGED notG

FmtVariantDebug ==
    /\ made_by = "make_tuple"
    /\ fmt_ret = ""
    /\ fmt_ret' = Variant_fmt_debug(made)
    /\ UNCHANGED <<made, made_by>>
    /\ UNCHANGED notG

(***************************************************************************)
(* Calls on the parser's ErrorContext                                      *)
(***************************************************************************)
CtxPush ==
    /\ ctx_op # "panic"
    /\ Len(ctx_stack) < MaxFrames
    /\ \E tag \in ContextTags : ctx_stack' = ErrorContext_push(ctx_stack, tag)
    /\ ctx_op' = "push"
    /\ ctx_ret' = None
    /\ UNCHANGED notK

CtxPushContinuation ==
    /\ ctx_op # "panic"
    /\ Len(ctx_stack) < MaxFrames
    /\ \E tag \in ContextTags : ctx_stack' = ErrorContext_push_continuation(ctx_stack, tag)
    /\ ctx_op' = "push_continuation"
    /\ ctx_ret' = None
    /\ UNCHANGED notK

CtxSetStart ==
    /\ ctx_op # "panic"
    /\ \E token \in TokenSpans :
        ctx_stack' = with_frame(ctx_stack, set_start(ErrorContext_frame(ctx_stack), token))
    /\ ctx_op' = "set_start"
    /\ ctx_ret' = None
    /\ UNCHANGED notK

CtxSetEnd ==
    /\ ctx_op # "panic"
    /\ \E token \in TokenSpans :
        ctx_stack' = with_frame(ctx_stack, set_end(ErrorContext_frame(ctx_stack), token))
    /\ ctx_op' = "set_end"
    /\ ctx_ret' = None
    /\ UNCHANGED notK

CtxPop ==
    /\ ctx_op # "panic"
    /\ LET p == ErrorContext_pop(ctx_stack)
       IN  /\ ctx_stack' = p.stack
           /\ ctx_op' = IF p.panic THEN "panic" ELSE "pop"
           /\ ctx_ret' = p.frame
    /\ UNCHANGED notK

CtxPopExtend ==
    /\ ctx_op # "panic"
    /\ LET p == ErrorContext_pop_extend(ctx_stack)
       IN  /\ ctx_stack' = p.stack
           /\ ctx_op' = IF p.panic THEN "panic" ELSE "pop_extend"
           /\ ctx_ret' = None
    /\ UNCHANGED notK

(***************************************************************************)
(* Hashing a value                                                         *)
(***************************************************************************)
CanHash ==
    /\ hash_ret = None
    /\ hash_ret' = Some([op |-> "can_hash", result |-> Ok(can_hash(variant))])
    /\ UNCHANGED variant
    /\ UNCHANGED notH

TryFrom ==
    /\ hash_ret = None
    /\ hash_ret' = Some([op |-> "try_from", result |-> VariantKey_try_from(variant)])
    /\ UNCHANGED variant
    /\ UNCHANGED notH

(***************************************************************************)
(* Specifications                                                          *)
(***************************************************************************)
Init == BuilderInit /\ SymbolsInit /\ LexerIdle /\ ReplIdle /\ MainIdle /\ RuntimeIdle
Next ==
    NewChunk \/ PushByte \/ GetOrInsertConst \/ GetOrInsertStr \/ Build \/ Load \/ Unload
Spec == Init /\ [][Next]_vars

InitLimit == BuilderNearLimit /\ SymbolsInit /\ LexerIdle /\ ReplIdle /\ MainIdle /\ RuntimeIdle
NextLimit == NewChunkAtLimit \/ GetOrInsertConstAtLimit \/ BuildAtLimit \/ LoadAtLimit
SpecLimit == InitLimit /\ [][NextLimit]_vars

InitSymbols == BuilderIdle /\ SymbolsInit /\ LexerIdle /\ ReplIdle /\ MainIdle /\ RuntimeIdle
NextSymbols == Insert
SpecSymbols == InitSymbols /\ [][NextSymbols]_vars

NextLookup == Insert \/ Lookup
SpecLookup == InitSymbols /\ [][NextLookup]_vars

InitLexer == BuilderIdle /\ SymbolsInit /\ LexerInit /\ ReplIdle /\ MainIdle /\ RuntimeIdle
NextLexer == NextToken
SpecLexer == InitLexer /\ [][NextLexer]_vars

InitKeywords ==
    BuilderIdle /\ SymbolsInit /\ KeywordLexerInit /\ ReplIdle /\ MainIdle /\ RuntimeIdle
NextKeywords == NextToken
SpecKeywords == InitKeywords /\ [][NextKeywords]_vars

InitRepl == BuilderIdle /\ SymbolsInit /\ LexerIdle /\ ReplInit /\ MainInRepl /\ RuntimeIdle
NextRepl == ReadQuit \/ ReadRestart \/ ReadEmpty \/ ReadOk \/ Submit
SpecRepl == InitRepl /\ [][NextRepl]_vars
InitMain == BuilderIdle /\ SymbolsInit /\ LexerIdle /\ ReplNotStarted /\ MainInit /\ RuntimeIdle
NextMain ==
    \/ MainStartRepl \/ MainParseOnly \/ MainCompileOnly \/ MainInteractive
    \/ MainRun \/ MainReplReturns
    \/ ReadQuit \/ ReadRestart \/ ReadEmpty \/ ReadOk \/ Submit
SpecMain == InitMain /\ [][NextMain]_vars

FrontIdle == BuilderIdle /\ SymbolsInit /\ LexerIdle /\ ReplIdle /\ MainIdle

InitParse ==
    FrontIdle /\ ParseInit /\ UpvalueInit /\ CallIdle /\ ErrorInit /\ VariantIdle /\ LibraryIdle
NextParse == ParseAst
SpecParse == InitParse /\ [][NextParse]_vars

InitUpvalues ==
    FrontIdle /\ ParseIdle /\ UpvalueInit /\ CallIdle /\ ErrorInit /\ VariantIdle /\ LibraryIdle
NextUpvalues == NewUpvalue \/ CloseUpvalue
SpecUpvalues == InitUpvalues /\ [][NextUpvalues]_vars

InitCalls ==
    FrontIdle /\ ParseIdle /\ UpvalueInit /\ CallInit /\ ErrorInit /\ VariantIdle /\ LibraryIdle
NextCalls == FunctionCheckedCall \/ NativeCheckedCall \/ NativeInvoke
SpecCalls == InitCalls /\ [][NextCalls]_vars

InitErrors ==
    FrontIdle /\ ParseIdle /\ UpvalueInit /\ CallIdle /\ ErrorInit /\ VariantIdle /\ LibraryIdle
NextErrors == Raise \/ PushFrame \/ ExtendTrace \/ CausedBy
SpecErrors == InitErrors /\ [][NextErrors]_vars

InitVariants ==
    FrontIdle /\ ParseIdle /\ UpvalueInit /\ CallIdle /\ ErrorInit /\ VariantInit /\ LibraryIdle
NextVariants == CanHash \/ TryFrom
SpecVariants == InitVariants /\ [][NextVariants]_vars

InitTable == FrontIdle /\ RuntimeIdle
NextTable == TableCall \/ TableBorrowMut \/ TableBorrow \/ TableUse \/ TableDrop
SpecTable == InitTable /\ [][NextTable]_vars

InitBinop == FrontIdle /\ RuntimeIdle
NextBinop == PrecedenceLevel
SpecBinop == InitBinop /\ [][NextBinop]_vars

InitStrings == FrontIdle /\ RuntimeIdle
NextStrings == OpAdd \/ OpRAdd \/ CmpEq \/ CmpLt \/ CmpLe
SpecStrings == InitStrings /\ [][NextStrings]_vars

InitBuf == FrontIdle /\ RuntimeIdle
NextBuf == BufPushByte \/ BufPatchBytes \/ BufResizePatch
SpecBuf == InitBuf /\ [][NextBuf]_vars

InitTuples == FrontIdle /\ RuntimeIdle
NextTuples == TupleFrom \/ MakeTuple \/ FmtTupleDisplay \/ FmtVariantDebug
SpecTuples == InitTuples /\ [][NextTuples]_vars

InitContext == FrontIdle /\ RuntimeIdle
NextContext == CtxPush \/ CtxPushContinuation \/ CtxSetStart \/ CtxSetEnd \/ CtxPop \/ CtxPopExtend
SpecContext == InitContext /\ [][NextContext]_vars

InitDisplay == FrontIdle /\ RuntimeIdle
NextDisplay == FmtCall \/ FmtString \/ FmtTuple \/ FmtSelf
SpecDisplay == InitDisplay /\ [][NextDisplay]_vars

\* a call of fmt that has begun goes on until it returns or the stack is used up
FairSpecDisplay == SpecDisplay /\ WF_vars(FmtString \/ FmtTuple \/ FmtSelf)

\* the loop of run never waits: a read returns a line, an error or the end of input
FairSpecRepl == SpecRepl /\ WF_vars(NextRepl)

(***************************************************************************)
(* Claims about the builder and the loader                                 *)
(***************************************************************************)
Range(f) == {f[i] : i \in DOMAIN f}

\* C1: calls given structurally equal constants (the same literal, the same
\* string text) got the same ConstID, calls given unequal constants got
\* different ConstIDs, and no two entries of the constant pool are equal.
C1_ConstDedup ==
    /\ \A p \in calls, q \in calls : (p[1] = q[1]) <=> (p[2] = q[2])
    /\ \A i \in 1..Len(consts), j \in 1..Len(consts) : consts[i] = consts[j] => i = j
    /\ DOMAIN dedup = Range(consts)
    /\ \A i \in 1..Len(consts) : dedup[consts[i]] = i - 1

\* a call has just returned the id of the first of two pool entries: it was
\* given a constant that an earlier call had inserted
C1_Witness ==
    /\ ret.op = "get_or_insert_str" /\ ret.ok /\ ret.id = 0
    /\ Len(consts) = 2
    /\ Cardinality(calls) = 2

\* C2: after build and load, entry i of the program's string symbols is the
\* global symbol whose text is the text build-local symbol i had in the
\* builder, and lookup_value of a Constant::String(i) is a string value with
\* that text.
C2_LoadedStrings ==
    phase = "loaded" =>
        LET prog == unwrap(program)
        IN  /\ Len(prog.strings) >= Len(strings)
            /\ \A i \in 0..(Len(strings) - 1) :
                interner_resolve(string_table, prog.strings[i + 1]) = Some(strings[i + 1])
            /\ \A cid \in 0..(Len(prog.consts) - 1) :
                prog.consts[cid + 1].tag = "String" =>
                    LET v == lookup_value(prog, cid)
                    IN  /\ is_some(v)
                        /\ unwrap(v).tag = "String"
                        /\ interner_resolve(string_table, unwrap(v).a)
                             = Some(strings[prog.consts[cid + 1].a + 1])

\* a loaded program with a string constant whose bytes lay behind chunk bytes
\* and whose global symbol differs from its build-local one
C2_Witness ==
    /\ phase = "loaded"
    /\ \E cid \in 1..Len(consts) :
        /\ consts[cid].tag = "String"
        /\ unwrap(unloaded).strings[consts[cid].a + 1].offset > 0
        /\ unwrap(unloaded).strings[consts[cid].a + 1].length > 1
        /\ unwrap(program).strings[consts[cid].a + 1] # consts[cid].a

\* self.chunks.len() and self.consts.len()
chunks_len == elided + Len(chunks)
consts_len == elided + Len(consts)

\* the constant is an entry of the pool
InPool(value) == IsElidedConst(elided, value) \/ value \in Range(consts)

C7_Step ==
    /\ ret'.op = "new_chunk" =>
        IF chunks_len <= 65535
        THEN ret'.ok /\ ret'.id = chunks_len /\ chunks_len' = chunks_len + 1
        ELSE ~ret'.ok /\ ret'.err = "ChunkCountLimit"
    /\ (ret'.op = "get_or_insert_const" /\ ~InPool(unwrap(arg'))) =>
        IF consts_len <= 65535
        THEN ret'.ok /\ ret'.id = consts_len /\ consts' = Append(consts, unwrap(arg'))
        ELSE ~ret'.ok /\ ret'.err = "ConstPoolLimit"
    /\ ~ret'.ok => UNCHANGED <<elided, chunks, consts, dedup>>
    /\ ret'.ok => ret'.id <= 65535

\* C7: new_chunk returns the number of chunks there were, as long as it fits
\* in 16 bits, and otherwise fails with ChunkCountLimit; get_or_insert_const
\* of a constant not in the pool returns the pool size, as long as it fits in
\* 16 bits, and otherwise fails with ConstPoolLimit; a failed call leaves
\* chunks, consts and dedup unchanged; no id above 65535 is returned.
C7_IdLimits == [][C7_Step]_vars

\* both tables are full and the last call was refused
C7_Witness ==
    /\ chunks_len = 65536
    /\ consts_len = 65536
    /\ ~ret.ok /\ ret.err = "ConstPoolLimit"

(***************************************************************************)
(* Claims about the debug symbol table                                     *)
(***************************************************************************)
C6_Sorted == \A i \in 1..(Len(entries) - 1) : entries[i].offset < entries[i + 1].offset

C6_Step ==
    IF entries # <<>> /\ sym_ret'.offset <= entries[Len(entries)].offset
    THEN sym_ret'.result = "panic" /\ entries' = entries
    ELSE sym_ret'.result = "ok" /\ Len(entries') = Len(entries) + 1
         /\ entries'[Len(entries')].offset = sym_ret'.offset

\* C6: the offsets of the table's entries are strictly increasing; an insert
\* whose offset is not above the last inserted offset panics and adds no entry.
C6_StrictlyIncreasing == [](C6_Sorted) /\ [][C6_Step]_vars

\* an insert has just been rejected by a table of three entries
C6_Witness == Len(entries) = 3 /\ sym_ret.result = "panic"

(***************************************************************************)
(* Claims about the lexer                                                  *)
(***************************************************************************)
LastOut == out[Len(out)]

\* C3: when no rule remains live after feeding a character, the result is decided
\* only by the set of distinct rules that completed on the previous round: none:
\* "could not parse symbol"; exactly one: the decision falls on that rule (its token
\* is emitted); more than one: "ambiguous symbol".
C3_DecidedByLastRound ==
    \A i \in 1..Len(out) :
        out[i].path = "empty" =>
            LET last_round == out[i].round_complete
            IN  IF last_round = {}
                THEN out[i].kind = "error" /\ out[i].message = "could not parse symbol"
                ELSE IF Cardinality(last_round) = 1
                THEN out[i].kind \in {"token", "panic"} /\ out[i].rule \in last_round
                ELSE out[i].kind = "error" /\ out[i].message = "ambiguous symbol"

\* C4: with one rule left live, input is consumed as long as that rule accepts the
\* next character; the lexer stops only at a character the rule rejects or at the
\* end of input, and the token's span covers every character from the token's start
\* up to there.
C4_LongestMatch ==
    (out # <<>> /\ LastOut.path = "exhaust" /\ LastOut.kind = "token") =>
        LET r == LastOut.rule
            consumed == Len(input) - Len(lexer.source)
        IN  /\ \/ lexer.source = <<>>
               \/ rule_match(RuleDefs[r], lexer.rules[r].count, Head(lexer.source)) = NoMatch
            /\ LastOut.location.index = LastOut.start
            /\ LastOut.location.index + LastOut.location.length = consumed

\* some rule accepts every character of word and completes on the last one
IsValidToken(word) ==
    \E r \in RuleIds :
        /\ \A k \in 1..Len(word) : rule_match(RuleDefs[r], k - 1, word[k]) # NoMatch
        /\ rule_match(RuleDefs[r], Len(word) - 1, word[Len(word)]) = CompleteMatch

\* every maximal run of non-whitespace characters of text is a valid token
ValidInput(text) ==
    \A i \in 1..Len(text) : \A j \in i..Len(text) :
        ( /\ \A k \in i..j : ~is_whitespace(text[k])
          /\ (i = 1 \/ is_whitespace(text[i - 1]))
          /\ (j = Len(text) \/ is_whitespace(text[j + 1])) )
        => IsValidToken(SubSeq(text, i, j))

Positions(span) == span.index..(span.index + span.length - 1)

\* C5: on an input of valid tokens separated by whitespace every call returns a
\* token, and the spans of the tokens returned so far (EOF excluded) are disjoint,
\* increasing, and hold exactly the non-whitespace characters consumed so far.
C5_SpansCoverInput ==
    ValidInput(input) =>
        LET toks == {i \in 1..Len(out) : out[i].token # "EOF"}
            consumed == Min(Len(input), Len(input) - Len(lexer.source))
        IN  /\ \A i \in 1..Len(out) : out[i].kind = "token"
            /\ \A i \in toks : \A j \in toks :
                   i < j => out[i].location.index + out[i].location.length
                                <= out[j].location.index
            /\ UNION {Positions(out[i].location) : i \in toks}
                   = {p \in 0..(consumed - 1) : ~is_whitespace(input[p + 1])}

(***************************************************************************)
(* Claims about the REPL                                                   *)
(***************************************************************************)
IsQuitLine(text) == text = QUIT \/ contains(text, EOT)

\* what one pass of the read loop must do with a line that does not quit
C8_Pass ==
    LET text == line'.text
        a == ends_with(text, ";")
        b == text # <<>> /\ ~a /\ parse_source(repl_input \o text).ok
        c == line'.kind = "Empty" /\ repl_input # <<>>
    IN  /\ prompt' = IF repl_input = <<>> THEN ">>> " ELSE "... "
        /\ last_submit' = last_submit
        /\ IF a \/ b \/ c
           THEN pc' = "submit" /\ repl_input' = repl_input \o text
           ELSE pc' = "read"

\* C8 as stated: the buffer is submitted exactly when (a) the line just read ends
\* with ';', (b) the line does not end with ';' and the buffer parses, or (c) an
\* empty line is read while the buffer is non-empty; otherwise another line is read,
\* with prompt "... " if the buffer is non-empty and ">>> " if it is empty.
C8_SubmitExactlyWhen == [][pc = "read" => C8_Pass]_vars

\* C8 amended: a line equal to quit or containing \x04 makes run return without
\* submitting anything; for every other line the buffer is submitted exactly when
\* (a), (b) or (c) holds, and otherwise another line is read with the prompt chosen
\* by whether the buffer is empty; what is submitted is the accumulated buffer.
C8_SubmitExactlyWhenNotQuit ==
    [][ /\ pc = "read" =>
            IF IsQuitLine(line'.text)
            THEN pc' = "done" /\ repl_input' = repl_input /\ last_submit' = last_submit
            ELSE C8_Pass
        /\ pc = "submit" => last_submit'.text = repl_input ]_vars

\* a line ending with ';' was read at the continuation prompt and the buffer, which
\* does not parse, is about to be submitted
C8_Witness ==
    /\ pc = "submit"
    /\ prompt = "... "
    /\ ends_with(line.text, ";")
    /\ ~parse_source(repl_input).ok

OpensUnbalanced(buffer) == brace_depth(buffer, 0) > 0

C10_Terminates ==
    [](((stdin_eof \/ IsQuitLine(line.text))) => <>(pc = "done"))

(***************************************************************************)
(* Claims about main and the REPL's submissions                            *)
(***************************************************************************)
IsPrefix(u, v) == Len(u) <= Len(v) /\ SubSeq(v, 1, Len(u)) = u

\* the objects of a session, once the Repl exists, are the ones every VirtualMachine
\* was given, and what earlier runs defined was there for the later ones
C11_Session ==
    is_some(repl) =>
        LET r == unwrap(repl)
        IN  /\ \A i \in 1..Len(vms) :
                /\ vms[i].ctor = "new_repl"
                /\ vms[i].module_cache = r.module_cache
                /\ vms[i].env = r.repl_env
            /\ \A i \in 1..Len(vms) : \A j \in (i + 1)..Len(vms) :
                vms[i].defined \subseteq vms[j].visible
            /\ Len(caches[r.module_cache]) = Len(vms)

\* no step replaces the Repl's objects or takes anything out of them
C11_Step ==
    is_some(repl) =>
        /\ repl' = repl
        /\ Len(caches') = Len(caches) /\ Len(envs') = Len(envs)
        /\ \A c \in 1..Len(caches) : IsPrefix(caches[c], caches'[c])
        /\ \A e \in 1..Len(envs) : envs[e] \subseteq envs'[e]

\* C11: within one REPL session every VirtualMachine is constructed with the same
\* GlobalEnv and the same ModuleCache, which are never replaced or cleared between
\* submissions, whatever their outcome; with -i they are the ones the script was
\* run with; a global defined by one run is visible to every later run.
C11_SameEnvAndCache == [](C11_Session) /\ [][C11_Step]_vars

\* with -i: the script defined x, a submission failed at runtime, and the next
\* submission's VirtualMachine saw x
C11_Witness ==
    /\ args.interactive
    /\ Len(vms) = 3
    /\ vms[1].defined = {"x"}
    /\ ~vms[2].ok
    /\ vms[3].visible = {"x"}

\* C12: before compiling, the REPL replaces the last statement by Echo(expr) if and
\* only if it is an expression statement Expression(expr), keeping its debug symbol;
\* the earlier statements, their order and the number of statements are unchanged,
\* and a last statement of another kind is left as it is.
C12_EchoLastExpression ==
    is_some(last_submit.ast) =>
        LET parsed == unwrap(last_submit.ast)
            compiled == unwrap(last_submit.compiled)
            n == Len(parsed)
        IN  /\ Len(compiled) = n
            /\ \A i \in 1..(n - 1) : compiled[i] = parsed[i]
            /\ n > 0 =>
                /\ compiled[n].symbol = parsed[n].symbol
                /\ IF parsed[n].stmt.kind = "Expression"
                   THEN compiled[n].stmt = [kind |-> "Echo", expr |-> parsed[n].stmt.expr]
                   ELSE compiled[n] = parsed[n]

\* two expression statements were submitted: the first went to the compiler as it
\* was, the second as an Echo
C12_Witness ==
    /\ is_some(last_submit.compiled)
    /\ Len(unwrap(last_submit.compiled)) = 2
    /\ unwrap(last_submit.ast)[2].stmt.kind = "Expression"
    /\ unwrap(last_submit.compiled)[1].stmt.kind = "Expression"
    /\ unwrap(last_submit.compiled)[2].stmt.kind = "Echo"

HasSource == args.file \/ args.cmd
OneShot == HasSource /\ ~args.interactive /\ ~args.parse_only /\ ~args.compile_only

\* the program was built, loaded and run without error
RanWithoutError == steps = <<"build", "load", "run">> /\ Len(vms) = 1 /\ vms[1].ok

\* C13: a one-shot run ends with exit status 0 if and only if the source was read,
\* compiled and executed without error; an I/O error, a syntax or compile error and
\* a runtime error each end the process with a non-zero status.
C13_ExitStatus ==
    (OneShot /\ mpc = "exit") => (exit_status = Some(0) <=> RanWithoutError)

\* what main does in the cases C14 names, but for the case of -d
C14_Modes ==
    mpc # "start" =>
        /\ (steps = <<"repl">>) <=> ~HasSource
        /\ (HasSource /\ args.parse_only) =>
            /\ steps \in {<<"source_error">>, <<"parse", "print_errors">>,
                          <<"parse", "print_ast">>}
            /\ vms = <<>> /\ caches = <<>> /\ repl = None /\ pc = "none"
        /\ OneShot =>
            /\ steps \in {<<"build", "print_errors">>, <<"build", "load", "run">>}
            /\ Len(vms) = (IF steps = <<"build", "load", "run">> THEN 1 ELSE 0)
            /\ mpc = "exit" /\ repl = None /\ pc = "none"
        /\ (args.cmd /\ caches # <<>>) => caches[1][1] = "<cmd>"

\* -i: the program is run if it builds, and afterwards, unless the run failed, the
\* REPL is started on the objects the program was run with
C14_Interactive ==
    \/ steps = <<"build", "print_errors">> /\ vms = <<>> /\ repl = None
    \/ steps = <<"build", "load", "run">> /\ ~vms[1].ok /\ repl = None
    \/ steps = <<"build", "load", "run", "repl">> /\ vms[1].ok /\ is_some(repl)

RECURSIVE Produced(_, _)
Produced(output, ok) ==
    IF output = <<>> THEN <<>>
    ELSE (IF output[1].ok = ok THEN <<output[1].value>> ELSE <<>>)
         \o Produced(Tail(output), ok)

\* C15: parse_ast returns Ok holding every parsed statement in source order if and
\* only if the parser produced no error; otherwise it returns Err holding every
\* error the parser produced, in the order produced, and no statements.
C15_AllStatementsOrAllErrors ==
    is_some(parse_ast_ret) =>
        LET r == unwrap(parse_ast_ret)
            errors == Produced(parser_output, FALSE)
        IN  /\ r.ok <=> errors = <<>>
            /\ r.ok => r.value = Produced(parser_output, TRUE)
            /\ ~r.ok => r.value = errors

\* two errors with statements before, between and after them were returned as Err
C15_Witness ==
    /\ parser_output = <<Ok("s1"), Err("e2"), Ok("s2"), Err("e1")>>
    /\ parse_ast_ret = Some(Err(<<"e2", "e1">>))

(***************************************************************************)
(* Claims about the runtime                                                *)
(***************************************************************************)
C16_Step ==
    /\ Len(upvalues') >= Len(upvalues)
    /\ \A i \in (Len(upvalues) + 1)..Len(upvalues') :
        upvalues'[i].tag = "Open" /\ up_op'.op = "new" /\ upvalues'[i].at = up_op'.arg
    /\ \A i \in 1..Len(upvalues) :
        /\ upvalues[i].tag = "Closed" => upvalues'[i] = upvalues[i]
        /\ upvalues'[i] # upvalues[i] => up_op'.op = "close" /\ up_op'.i = i
    /\ up_op'.op = "close" =>
        /\ upvalues[up_op'.i].tag = "Open"
        /\ upvalues'[up_op'.i] = [tag |-> "Closed", at |-> up_op'.arg]

ArityAccepts(signature, nargs) ==
    /\ signature.min_arity <= nargs
    /\ signature.max_arity = None \/ nargs <= signature.max_arity[1]

\* C17: checked_call returns a Call directive, and invoke runs the native body, only
\* if the argument list was accepted; with fewer arguments than the minimum arity
\* or more than the maximum they return MissingArguments or TooManyArguments, with
\* the signature and the argument count, and no call takes place.
C17_ArityChecked ==
    is_some(call_ret) =>
        LET r == unwrap(call_ret).result
            op == unwrap(call_ret).op
            sig == callee.signature
        IN  /\ r.ok <=> ArityAccepts(sig, call_nargs)
            /\ (r.ok /\ op = "checked_call") =>
                r.value.tag = (IF callee.kind = "Function" THEN "Chunk" ELSE "Native")
            /\ native_runs = (IF r.ok /\ op = "invoke" THEN 1 ELSE 0)
            /\ ~r.ok =>
                /\ r.value.kind = (IF call_nargs < sig.min_arity THEN "MissingArguments"
                                   ELSE "TooManyArguments")
                /\ r.value.signature = sig
                /\ r.value.nargs = call_nargs

\* a compiled function taking one or two arguments was called with three
C17_Witness ==
    /\ callee.kind = "Function"
    /\ callee.signature = [min_arity |-> 1, max_arity |-> <<2>>]
    /\ call_nargs = 3
    /\ is_some(call_ret)
    /\ unwrap(call_ret).result.value.kind = "TooManyArguments"

C18_Step ==
    IF error_val = <<>>
    THEN error_val' # <<>> =>
            /\ error_val'[1].traceback = <<>>
            /\ error_val'[1].cause = <<>>
            /\ error_val'[1].kind = err_op'.arg
    ELSE LET old == error_val[1]
             new == error_val'[1]
         IN  /\ error_val' # <<>>
             /\ new.kind = old.kind
             /\ IsPrefix(old.traceback, new.traceback)
             /\ err_op'.op = "push_frame" =>
                    new.traceback = old.traceback \o <<err_op'.arg>> /\ new.cause = old.cause
             /\ err_op'.op = "extend_trace" =>
                    new.traceback = old.traceback \o err_op'.arg /\ new.cause = old.cause
             /\ err_op'.op = "caused_by" =>
                    new.traceback = old.traceback /\ new.cause = <<err_op'.arg>>

\* C18: a RuntimeError built from an ErrorKind starts with an empty traceback and no
\* cause; push_frame and extend_trace only append trace sites at the end, keeping
\* the sites there and their order, and leave kind and cause unchanged; caused_by
\* changes only the cause.
C18_TraceOnlyGrows == [][C18_Step]_vars

\* an error with a cause whose traceback was built by push_frame, then extend_trace
C18_Witness ==
    /\ is_some(error_val)
    /\ unwrap(error_val).traceback = <<"f", "g", "f">>
    /\ is_some(unwrap(error_val).cause)
    /\ err_op.op = "extend_trace"
    /\ err_op.arg = <<"g", "f">>

\* the values inside a value that are no tuples, at any depth (the value itself if
\* it is no tuple)
RECURSIVE Leaves(_)
Leaves(value) ==
    IF value.tag = "Tuple" THEN UNION {Leaves(value.items[i]) : i \in 1..Len(value.items)}
    ELSE {value}

Hashable(value) == \A leaf \in Leaves(value) : leaf.tag # "Float"

\* C19: can_hash is false exactly for a float and for a tuple that contains, at any
\* nesting depth, a non-hashable element; VariantKey::try_from succeeds if and only
\* if can_hash holds and otherwise returns UnhashableValue carrying that value.
C19_Hashability ==
    is_some(hash_ret) =>
        LET op == unwrap(hash_ret).op
            r == unwrap(hash_ret).result
        IN  /\ op = "can_hash" => r.value = Hashable(variant)
            /\ op = "try_from" =>
                /\ r.ok <=> Hashable(variant)
                /\ r.ok => r.value.key = variant
                /\ ~r.ok =>
                    r.value.kind = [kind |-> "UnhashableValue", value |-> variant]

\* a tuple whose only float lies three tuples deep was refused as a key
C19_Witness ==
    /\ variant = Tuple(<<Nil, Tuple(<<Tuple(<<BoolTrue, Float("1.5")>>)>>)>>)
    /\ is_some(hash_ret)
    /\ unwrap(hash_ret).op = "try_from"
    /\ ~unwrap(hash_ret).result.ok

Keywords == {k \in RuleIds : RuleDefs[k].kind = "keyword"}
WordChars == {ch \in Chars \cup KeywordChars : is_word(ch)}

\* the first call of next_token on the input returned this token spanning all of it
LexesAs(token) ==
    Len(out) >= 1 =>
        /\ out[1].kind = "token"
        /\ out[1].token = token
        /\ out[1].location = Span(0, Len(input))

\* C20: for every keyword K, the input K lexes as the keyword token; K followed by a
\* word character lexes as one identifier token; try_match rejects the first
\* character of K after a word character, and no keyword token starts in the middle
\* of a word.
C20_WordBoundary ==
    \A k \in Keywords :
        LET K == RuleDefs[k].target
        IN  /\ input = K => LexesAs(RuleDefs[k].token)
            /\ \A ch \in WordChars : input = Append(K, ch) => LexesAs("Identifier")
            /\ \A ch \in WordChars :
                   KeywordRule_try_match(RuleDefs[k], rule_reset, Some(ch), K[1]).result
                       = NoMatch
            /\ \A i \in 1..Len(out) :
                   (out[i].kind = "token" /\ out[i].token = RuleDefs[k].token) =>
                       (out[i].start = 0 \/ ~is_word(input[out[i].start]))

\* the number of newline characters among the first n characters of the text
RECURSIVE Newlines(_, _)
Newlines(text, n) ==
    IF n = 0 THEN 0
    ELSE Newlines(text, n - 1) + (IF text[n] = "\n" THEN 1 ELSE 0)

\* C21: the line counter is 1 plus the number of newlines consumed so far, and every
\* token or error returned carries 1 plus the number of newlines of the input that
\* precede the end of its span.
C21_LineNumbers ==
    /\ lexer.lineno = 1 + Newlines(input, Len(input) - Len(lexer.source))
    /\ \A i \in 1..Len(out) :
           out[i].kind \in {"token", "error"} =>
               out[i].lineno
                   = 1 + Newlines(input, Min(Len(input),
                                             out[i].location.index
                                                 + out[i].location.length))

\* a newline skipped as whitespace and a newline consumed while the symbol was
\* decided were both counted, in an error and in the token after it
C21_Witness ==
    /\ input = <<"\n", "<", "<", "\n">>
    /\ Len(out) = 2
    /\ out[1].kind = "error"
    /\ out[1].lineno = 3
    /\ out[2].token = "EOF"
    /\ out[2].lineno = 3

\* every range of the program's tables lies inside its own byte buffer
SelfContained(p) ==
    /\ \A i \in 1..Len(p.chunks) : p.chunks[i].offset + p.chunks[i].length <= Len(p.bytes)
    /\ \A i \in 1..Len(p.strings) : p.strings[i].offset + p.strings[i].length <= Len(p.bytes)

\* C22: load followed by unload gives a self-contained program with the same chunks
\* (the same bytes for every chunk id), the same constants and functions, and the
\* same text for every string index.
C22_LoadUnload ==
    phase = "unloaded" =>
        LET p == unwrap(unloaded)
            q == unwrap(exported)
        IN  /\ SelfContained(q)
            /\ q.chunks = p.chunks
            /\ \A id \in 0..(Len(p.chunks) - 1) :
                   UnloadedProgram_chunk(q, id) = UnloadedProgram_chunk(p, id)
            /\ q.consts = p.consts
            /\ q.functions = p.functions
            /\ Len(q.strings) = Len(p.strings)
            /\ \A i \in 0..(Len(p.strings) - 1) :
                   /\ is_some(UnloadedProgram_string(q, i))
                   /\ UnloadedProgram_string(q, i) = UnloadedProgram_string(p, i)

\* a program with chunk bytes and a three-byte string went through load and unload,
\* the process table holding another string before
C22_Witness ==
    /\ phase = "unloaded"
    /\ Len(string_table) >= 2
    /\ string_table[1] = <<97>>
    /\ Len(unwrap(exported).chunks) >= 1
    /\ unwrap(exported).chunks[1].length > 0
    /\ \E i \in 1..Len(unwrap(exported).strings) : unwrap(exported).strings[i].length = 3

\* the sum of the lengths the chunk table records
RECURSIVE SumLengths(_)
SumLengths(indices) ==
    IF indices = <<>> THEN 0 ELSE Head(indices).length + SumLengths(Tail(indices))

\* C23: load leaves the chunk table, the constants and the functions as they were
\* and truncates the bytes to exactly the sum of the chunk lengths; Program::chunk
\* returns for every chunk id the bytes UnloadedProgram::chunk returned before.
C23_LoadFrame ==
    phase = "loaded" =>
        LET p == unwrap(unloaded)
            prog == unwrap(program)
        IN  /\ prog.chunks = p.chunks
            /\ prog.consts = p.consts
            /\ prog.functions = p.functions
            /\ Len(prog.bytes) = SumLengths(p.chunks)
            /\ \A id \in 0..(Len(p.chunks) - 1) :
                   Program_chunk(prog, id) = UnloadedProgram_chunk(p, id)

\* a loaded program of two chunks with bytes, whose string bytes were cut off
C23_Witness ==
    /\ phase = "loaded"
    /\ Len(unwrap(program).chunks) = 2
    /\ unwrap(program).chunks[2].length > 0
    /\ unwrap(program).chunks[2].offset > 0
    /\ Len(unwrap(unloaded).bytes) > Len(unwrap(program).bytes)

\* C24: the string table is never borrowed mutably while another borrow of it is
\* live, and never borrowed while a mutable borrow is live: no call on it meets
\* a refused borrow, and between calls no borrow is left.
C24_NoOverlappingBorrow ==
    /\ ~borrow_panic
    /\ cell.writers <= 1
    /\ cell.writers = 1 => cell.readers = 0
    /\ is_some(tcall) /\ unwrap(tcall).pc = "held" =>
           IF held_by(unwrap(tcall).op) = "mut"
           THEN cell = [writers |-> 1, readers |-> 0]
           ELSE cell = [writers |-> 0, readers |-> 1]
    /\ ~is_some(tcall) => cell = RefCell_new

\* load has interned its last string under its mutable borrow, after a write_str
\* and an unload had borrowed and returned
C24_Witness ==
    /\ tdone = <<"write_str", "unload">>
    /\ is_some(tcall)
    /\ unwrap(tcall) = [op |-> "load", pc |-> "held", left |-> 0]
    /\ cell.writers = 1

\* the entries inserted at or before the offset
AtOrBefore(offset) == {i \in 1..Len(entries) : entries[i].offset <= offset}

\* C25: lookup returns the symbol of the entry inserted at the offset or, failing
\* that, of the nearest entry before it; it returns none only when there is no
\* such entry or the entry was inserted without a symbol.
C25_LookupCovers ==
    is_some(lookup_ret) =>
        LET offset == unwrap(lookup_ret).offset
            covering == AtOrBefore(offset)
        IN  IF covering = {} THEN unwrap(lookup_ret).symbol = None
            ELSE unwrap(lookup_ret).symbol
                     = entries[CHOOSE i \in covering : \A j \in covering : j <= i].symbol

\* a lookup between two inserted offsets
C25_Witness ==
    /\ is_some(lookup_ret)
    /\ Len(entries) = 2
    /\ entries[1].offset < unwrap(lookup_ret).offset
    /\ unwrap(lookup_ret).offset < entries[2].offset
    /\ is_some(entries[1].symbol)

\* the spec's table of levels, by the operator as written
LevelOf(symbol) ==
    CASE symbol \in {"*", "/", "%"} -> 2
      [] symbol \in {"+", "-"} -> 3
      [] symbol \in {"<<", ">>"} -> 4
      [] symbol = "&" -> 5
      [] symbol = "^" -> 6
      [] symbol = "|" -> 7
      [] symbol \in {"<", ">", "<=", ">=", "==", "!="} -> 8
      [] symbol = "and" -> 9
      [] symbol = "or" -> 10

Comparisons == {"<", ">", "<=", ">=", "==", "!="}

\* C26: every operator is given the level of the spec's table, so of two operators
\* asked, * has a strictly lower level than +, `and` a strictly lower level than
\* `or`, and all comparison operators have one level.
C26_PrecedenceTable ==
    /\ \A i \in 1..Len(queries) : queries[i].level = LevelOf(BinaryOp_fmt(queries[i].op))
    /\ \A i \in 1..Len(queries), j \in 1..Len(queries) :
        LET a == BinaryOp_fmt(queries[i].op)
            b == BinaryOp_fmt(queries[j].op)
        IN  /\ (a = "*" /\ b = "+") => queries[i].level < queries[j].level
            /\ (a = "and" /\ b = "or") => queries[i].level < queries[j].level
            /\ (a \in Comparisons /\ b \in Comparisons) =>
                   queries[i].level = queries[j].level

\* `and` and `or` were asked, in this order
C26_Witness ==
    /\ Len(queries) = 2
    /\ queries[1] = [op |-> "And", level |-> 9]
    /\ queries[2] = [op |-> "Or", level |-> 10]

\* C27: an operation on a string value returns "unsupported" exactly when the other
\* operand is not a string, and never an error; with a string operand op_add gives
\* self followed by rhs and op_radd gives lhs followed by self.
C27_StringOperands ==
    \A c \in Range(strop) :
        /\ ~is_some(c.ret) <=> c.other.tag # "String"
        /\ \A r \in Range(c.ret) :
            /\ r.ok
            /\ c.op = "op_add" =>
                   /\ r.value.tag = "String"
                   /\ chars(r.value.val) = chars(c.self) \o chars(c.other.val)
            /\ c.op = "op_radd" =>
                   /\ r.value.tag = "String"
                   /\ chars(r.value.val) = chars(c.other.val) \o chars(c.self)

\* "b" was added to the right of "a": op_radd of "b" with the left operand "a"
C27_Witness ==
    /\ is_some(strop)
    /\ unwrap(strop).op = "op_radd"
    /\ unwrap(strop).self = "b"
    /\ unwrap(strop).other = String("a")
    /\ unwrap(unwrap(strop).ret).value = String("ab")

\* the text of a value, piece by piece
RECURSIVE Text(_)
RECURSIVE TextOfItems(_, _)
Text(value) ==
    CASE value.tag = "Nil" -> <<"nil">>
      [] value.tag = "EmptyTuple" -> <<"()">>
      [] value.tag = "BoolTrue" -> <<"true">>
      [] value.tag = "BoolFalse" -> <<"false">>
      [] value.tag = "Tuple" -> <<"(">> \o TextOfItems(value.items, 1)
      [] OTHER -> <<value.val>>
TextOfItems(items, i) ==
    IF i = Len(items) THEN Text(items[i]) \o <<")">>
    ELSE Text(items[i]) \o <<", ">> \o TextOfItems(items, i + 1)

\* C28: formatting a value with Display terminates for every variant and yields its
\* text; the integer 3 displays as 3.
C28_DisplayTerminates ==
    (fmt_state = "running") ~> (fmt_state = "done" /\ fmt_out = Text(fmt_value))

\* a tuple of strings in a tuple was formatted to the end
C28_Witness ==
    /\ fmt_state = "done"
    /\ fmt_value = Tuple(<<Tuple(<<String("a"), String("b")>>), String("a")>>)
    /\ fmt_out = <<"(", "(", "a", ", ", "b", ")", ", ", "a", ")">>

\* where a span begins and where it ends
SpanStart(span) == span.index
SpanEnd(span) == span.index + span.length

\* the earlier of two starts and the later of two ends, an unset one giving way
EarlierStart(a, b) ==
    IF ~is_some(a) THEN b
    ELSE IF ~is_some(b) THEN a
    ELSE IF SpanStart(unwrap(b)) < SpanStart(unwrap(a)) THEN b ELSE a

LaterEnd(a, b) ==
    IF ~is_some(a) THEN b
    ELSE IF ~is_some(b) THEN a
    ELSE IF SpanEnd(unwrap(b)) > SpanEnd(unwrap(a)) THEN b ELSE a

C29_Step ==
    ctx_op' = "pop_extend" =>
        LET n == Len(ctx_stack)
            inner == ctx_stack[n]
            parent == ctx_stack[n - 1]
            widened == ctx_stack'[n - 1]
        IN  /\ Len(ctx_stack') = n - 1
            /\ \A i \in 1..(n - 2) : ctx_stack'[i] = ctx_stack[i]
            /\ widened.tag = parent.tag
            /\ widened.start = EarlierStart(parent.start, inner.start)
            /\ widened.end = LaterEnd(parent.end, inner.end)
            /\ is_some(parent.start) =>
                   /\ is_some(widened.start)
                   /\ SpanStart(unwrap(widened.start)) <= SpanStart(unwrap(parent.start))
            /\ is_some(parent.end) =>
                   /\ is_some(widened.end)
                   /\ SpanEnd(unwrap(widened.end)) >= SpanEnd(unwrap(parent.end))

\* C29: pop_extend removes the innermost frame and widens its parent: the parent's
\* start becomes the earlier of the two starts and its end the later of the two ends,
\* a bound unset in one frame being taken from the other; the parent's span never
\* shrinks.
C29_PopExtendWidens == [][C29_Step]_vars

\* a parent that began at the second token and ended there was widened by a frame
\* that began at the first token and ended at the third
C29_Witness ==
    /\ ctx_op = "pop_extend"
    /\ Len(ctx_stack) = 2
    /\ ctx_stack[1].start = Some(Span(2, 1))
    /\ ctx_stack[2].start = Some(Span(0, 2))
    /\ ctx_stack[2].end = Some(Span(4, 3))

\* the bytes of the interner's strings, in symbol order
RECURSIVE StringBytes(_)
StringBytes(strs) ==
    IF strs = <<>> THEN <<>> ELSE as_bytes(Head(strs)) \o StringBytes(Tail(strs))

\* C30: build lays the chunks out in chunk-id order, contiguously from offset 0 with
\* no gap and no overlap, so UnloadedProgram::chunk(id) returns the bytes of builder
\* chunk id for every id; the bytes of all strings come after the bytes of all
\* chunks; chunk 0, the top-level chunk, always exists.
C30_BuildLayout ==
    /\ Len(chunks) >= 1
    /\ phase = "built" =>
        LET p == unwrap(unloaded)
            n == Len(p.chunks)
            code == SumLengths(p.chunks)
        IN  /\ n = Len(chunks)
            /\ p.chunks[1].offset = 0
            /\ \A id \in 1..(n - 1) :
                   p.chunks[id + 1].offset = p.chunks[id].offset + p.chunks[id].length
            /\ \A id \in 0..(n - 1) : UnloadedProgram_chunk(p, id) = chunks[id + 1].bytes
            /\ SubSeq(p.bytes, code + 1, Len(p.bytes)) = StringBytes(strings)
            /\ Len(p.bytes) = code + Len(StringBytes(strings))

\* a built program of two chunks with bytes and a string behind them
C30_Witness ==
    /\ phase = "built"
    /\ Len(chunks) = 2
    /\ Len(chunks[1].bytes) > 0
    /\ Len(chunks[2].bytes) > 0
    /\ chunks[1].bytes # chunks[2].bytes
    /\ Len(strings) >= 1
    /\ Len(unwrap(unloaded).bytes) > SumLengths(unwrap(unloaded).chunks)

\* what patch_bytes did to the buffer in this step
PatchedExactly ==
    LET old == buf.bytes
        new == buf'.bytes
        offset == buf_op'.offset
        patch == buf_op'.patch
    IN  /\ Len(new) = Len(old)
        /\ \A i \in 1..Len(old) :
               new[i] = IF i > offset /\ i <= offset + Len(patch) THEN patch[i - offset]
                        ELSE old[i]

\* what resize_patch did to the buffer in this step
ResizedExactly ==
    LET old == buf.bytes
        new == buf'.bytes
        offset == buf_op'.offset
        from_len == buf_op'.from_len
        to_len == buf_op'.to_len
    IN  /\ Len(new) = Len(old) + to_len - from_len
        /\ \A i \in 1..offset : new[i] = old[i]
        /\ \A i \in (offset + 1)..(offset + to_len) : new[i] = 0
        /\ \A i \in (offset + from_len + 1)..Len(old) : new[i + to_len - from_len] = old[i]

C31_Step ==
    /\ (buf_op'.op = "patch_bytes" /\ ~buf_op'.panic) => PatchedExactly
    /\ (buf_op'.op = "resize_patch" /\ ~buf_op'.panic) => ResizedExactly
    /\ buf'.symbol = buf.symbol

\* C31: patch_bytes(offset, patch) overwrites exactly the bytes [offset,
\* offset + len(patch)) and leaves every other byte and the length unchanged;
\* resize_patch(offset, from_len, to_len) replaces [offset, offset + from_len) by
\* to_len zero bytes, keeps the bytes before offset in place and the bytes after
\* offset + from_len in order, and changes the length by exactly to_len - from_len.
C31_PatchAndResize == [][C31_Step]_vars

\* a range of one byte inside a buffer was widened to two zero bytes, the bytes
\* around it kept
C31_Witness ==
    /\ buf_op.op = "resize_patch"
    /\ ~buf_op.panic
    /\ buf_op.offset = 1
    /\ buf_op.from_len = 1
    /\ buf_op.to_len = 2
    /\ buf.bytes = <<7, 0, 0, 9>>

\* C32: a non-empty-tuple value never holds an empty sequence: a tuple built from an
\* empty item list by Tuple::from or Variant::make_tuple is the empty-tuple value,
\* Tuple::len is 0 exactly when is_empty holds, and the formatting code always finds
\* a last element.
C32_TupleNeverEmpty ==
    made_by # "" =>
        /\ made.tag \in {"NonEmpty", "Tuple"} => made.items # <<>>
        /\ made.items = <<>> => made.tag \in {"Empty", "EmptyTuple"}
        /\ made_by = "Tuple::from" => (Tuple_len(made) = 0 <=> Tuple_is_empty(made))
        /\ fmt_ret # "panic"

\* make_tuple was given no items and the value it returned was formatted
C32_Witness ==
    /\ made_by = "make_tuple"
    /\ made.items = <<>>
    /\ fmt_ret # ""

C33_Step ==
    /\ phase' = "built" =>
        LET p == unwrap(unloaded')
        IN  /\ Len(p.strings) = Len(strings')
            /\ \A i \in 0..(Len(strings') - 1) :
                   UnloadedProgram_string(p, i) = Some(strings'[i + 1])
            /\ iter_strings(p) = strings'
    /\ (phase = "built" /\ phase' = "loaded") =>
        Range(string_table') \subseteq Range(string_table) \cup Range(strings)

\* C33: the string table of the program build returns has exactly one descriptor per
\* string of the builder's interner, descriptor i giving the bytes of build-local
\* symbol i; iter_strings yields each interned string exactly once, and load interns
\* into the global table only strings the program contains.
C33_OneDescriptorPerString == [][C33_Step]_vars

\* a program whose builder interned one non-empty string was built and loaded
C33_Witness ==
    /\ phase = "loaded"
    /\ Len(strings) = 1
    /\ strings[1] # <<>>
    /\ Len(unwrap(unloaded).strings) > Len(strings)

\* C34: every program the builder can build without a compile error can be loaded:
\* for any number of chunks new_chunk accepted, the maximum included, chunk_ids
\* enumerates every chunk id and load completes without panicking.
C34_BuiltProgramsLoad ==
    /\ phase = "built" =>
        chunk_ids_elided(elided, unwrap(unloaded)) = Some(0..(chunks_len - 1))
    /\ phase # "panic"

\* a builder whose every new_chunk succeeded, the last with the largest id, was
\* built and handed to load
C34_Witness ==
    /\ chunks_len = U16_MAX + 1
    /\ phase \in {"loaded", "panic"}
    /\ ret.op = "load"

\* C35: for any input next_token returns a token or a LexerError and never panics:
\* a token is taken only from a rule in the complete-match state, and input that
\* ends or stops matching while the chosen rule is incomplete yields a LexerError.
C35_NeverPanics ==
    \A i \in 1..Len(out) :
        out[i].kind \in {"token", "error"}

\* the input ended while the one rule left live had matched only a part of its text
C35_Witness ==
    /\ input = <<"!">>
    /\ Len(out) = 1
    /\ out[1].path = "exhaust"
    /\ out[1].rule = 9

\* C36: at end of input next_token returns EOF with a zero-length span located at
\* the input length, and calling it again returns the same EOF token at the same
\* position; every span the lexer reports satisfies index + length <= input length.
C36_EofStaysPut ==
    \A i \in 1..Len(out) :
        /\ out[i].kind \in {"token", "error"} =>
               out[i].location.index + out[i].location.length <= Len(input)
        /\ out[i].token = "EOF" =>
               /\ out[i].location = Span(Len(input), 0)
               /\ i > 1 /\ out[i - 1].token = "EOF" =>
                      out[i].location = out[i - 1].location

\* next_token was called twice at the end of a text of one token
C36_Witness ==
    /\ input = <<"a">>
    /\ Len(out) = 3
    /\ out[2].token = "EOF"
    /\ out[3].token = "EOF"

\* how the read loop was left, seen from the state in which the buffer is submitted
EndedBy ==
    IF is_some(parse_result) THEN "parsed"
    ELSE IF line.kind = "Empty" THEN "empty"
    ELSE "forced"

C37_Step ==
    (pc = "submit" /\ pc' = "read" /\ last_submit'.outcome # "parse_error") =>
        /\ EndedBy \in {"parsed", "empty", "forced"}
        /\ compile_ast_interner(parse_result, ast_interner) = 0

\* C37: in every REPL cycle the interner passed to compile_ast is the instance with
\* which the AST being compiled was parsed, whichever way the read loop ended: forced
\* by ';', by an empty line, or by a successful parse of the accumulated buffer.
C37_SameInterner == [][C37_Step]_vars

\* a buffer of two lines whose parse succeeded in the loop on the second was compiled
C37_Witness ==
    /\ pc = "read"
    /\ last_submit.outcome \in {"ok", "runtime_error", "compile_error"}
    /\ contains(last_submit.text, "\n")
    /\ ~ends_with(last_submit.text, ";")

C38_Step ==
    LET n == Len(ctx_stack)
    IN  /\ Len(ctx_stack') >= 1
        /\ ctx_stack'[1].tag = ctx_stack[1].tag
        /\ ctx_op' \in {"pop", "pop_extend"} => (n > 1 /\ Len(ctx_stack') = n - 1)
        /\ ctx_op' = "panic" => (n = 1 /\ ctx_stack' = ctx_stack)
        /\ ctx_op' = "pop" =>
               /\ ctx_ret' = Some(ctx_stack[n])
               /\ ctx_stack' = SubSeq(ctx_stack, 1, n - 1)
        /\ ctx_op' = "push_continuation" =>
               /\ Len(ctx_stack') = n + 1
               /\ SubSeq(ctx_stack', 1, n) = ctx_stack
               /\ ctx_stack'[n + 1].start = ctx_stack[n].start
               /\ ctx_stack'[n + 1].end = None

\* C38: after any sequence of push, push_continuation, pop and pop_extend the stack
\* still holds its base frame: pop and pop_extend are rejected when only the base
\* frame remains; pop returns the most recently pushed frame, and push_continuation
\* pushes a frame whose start is the start of the frame below it and whose end is
\* unset.
C38_BaseFrameStays == [][C38_Step]_vars

\* a continuation of a frame with both bounds set was pushed and popped again, and
\* the base frame alone remains
C38_Witness ==
    /\ ctx_op = "pop"
    /\ Len(ctx_stack) = 1
    /\ is_some(ctx_stack[1].start)
    /\ is_some(ctx_stack[1].end)
    /\ ctx_ret = Some([tag |-> "Expr", start |-> ctx_stack[1].start, end |-> None])

====
